---- MODULE Spec2Model ----
(***************************************************************************)
(* A model of fsm::stack, the hierarchical finite-state machine of         *)
(* src/fsm.hpp.  The file holds two revisions of the class: the            *)
(* integer-keyed one (hooks 'init', 'quit', 'push', 'back'; operations     *)
(* set/command; lines 113-296) and the string-keyed one (hooks begin, end, *)
(* pause, resume; operations next/exec; lines 633-797).  The variable      *)
(* `variant` says which revision a behaviour runs.                         *)
(*                                                                         *)
(* The engine is re-entrant: a handler runs inside call() and may call     *)
(* push/pop/set/command on the same machine.  The model therefore keeps    *)
(* the C++ call stack explicitly (`frames`): one frame per active engine   *)
(* function or handler, each with its position (pc) and its locals.  One   *)
(* action is one stretch of a function's code: it runs on through every    *)
(* call() that finds no handler and ends where a handler is invoked (the   *)
(* handler's body runs before the function resumes) or the function        *)
(* returns.  A bool result is written "true" or "false".                   *)
(*                                                                         *)
(* Iterators and references into the std::deque are positions together     *)
(* with a validity flag that follows the invalidation rules of the         *)
(* standard.  Using an invalidated one is undefined behaviour; the model   *)
(* branches over what builds do with it: stop the program (checked         *)
(* iterators, a fault), or carry on with the slot the iterator physically  *)
(* points at.                                                              *)
(***************************************************************************)
EXTENDS Integers, Sequences, FiniteSets, TLC

\* ------------------------------------------------------------ bounds ----
MaxDepth    == 3   \* the host pushes only while the stack is shallower
MaxLog      == 2   \* the host starts an operation only while the log is shorter
MaxHandlers == 2   \* entries the host registers during set-up
MaxNest     == 1   \* handlers running at once that may still call the engine
MaxTrip     == 2   \* pushes of a push/pop round trip
MaxExtra    == 5   \* records a host appends beyond the capacity of the log
MaxPos      == 7   \* the host reads positions -MaxPos..MaxPos and the extremes of int
MaxRun      == 7   \* dispatches of a run of the flat machine
MaxScript   == 2   \* calls a host makes on each of the two revisions

\* --------------------------------------------------- program constants ----
LogCap == 50       \* call(): if( log.size() > 50 ) log.pop_front()
IntMax == 2147483647   \* `signed pos`: the largest int of the builds
AntHealth == 1000      \* ant_t, handler of (defending, 'init'): health = 1000
HistCap == 60          \* fsm::core::operator(): max fixed size of 60

\* ------------------------------------------------------------ symbols ----
StateNames   == {"A", "B"}
TriggerNames == {"T"}
ArgLists     == {<<>>, <<"1">>}

state(name, args) == [name |-> name, args |-> args]

\* fsm::state() : the default symbol, no arguments; its name is 'null' with
\* integer keys and the empty string with string keys
DefaultState(v) == state(IF v = "int" THEN "null" ELSE "", <<>>)

\* filler for a record field that holds no state
NullState == state("-", <<>>)

\* a comparison that looks at the arguments too
SameStateAndArgs(a, b) == a = b

\* operator== and operator int compare names only
SameState(a, b) == a.name = b.name

\* the four lifecycle triggers, by revision
HookInit(v) == IF v = "int" THEN "init" ELSE "begin"
HookQuit(v) == IF v = "int" THEN "quit" ELSE "end"
HookPush(v) == IF v = "int" THEN "push" ELSE "pause"
HookBack(v) == IF v = "int" THEN "back" ELSE "resume"
HookNames(v) == {HookInit(v), HookQuit(v), HookPush(v), HookBack(v)}

\* bistate: the key of the callbacks map
bistate(from, to) == <<from.name, to.name>>

VARIABLES
    variant,          \* "int" or "str": which revision of the class runs
    callbacks,        \* std::map< bistate, fsm::call >
    deque,            \* std::deque< fsm::state >, index 1 = root
    log,              \* std::deque< fsm::transition >
    current_trigger,  \* fsm::state current_trigger
    frames,           \* the C++ call stack, last = executing
    status,           \* "setup", "alive", "crashed", "depth", "dead", "thrown"
    ub,               \* undefined behaviour has been executed
    op,               \* the host's operation in progress / last finished
    pre,              \* deque, log, current_trigger when `op` started
    trace,            \* what `op` has done so far: handler runs, deque edits
    ret,              \* "pending" while `op` runs, then its result
    host,             \* the member variables of the host object: a record
    states,           \* fsm::core: states_history, index 1 = front
    triggers          \* fsm::core: triggers_history, index 1 = front

vars == <<variant, callbacks, deque, log, current_trigger, frames, status, ub,
          op, pre, trace, ret, host, states, triggers>>

\* a host whose member variables no handler reads or writes
NoHost == [members |-> "none"]


\* ------------------------------------------------------ handler bodies ----
\* A handler is host code.  What matters to the engine is the sequence of
\* engine calls it makes on the same machine; a body is that sequence.
EngineCall(fn, arg) == [fn |-> fn, arg |-> arg]

\* What the handlers of the modelled hosts do: a handler of a user trigger
\* does nothing, pops, pushes or replaces; a handler of a lifecycle trigger
\* does nothing or pops.
TriggerBodies ==
    { <<>>,
      << EngineCall("pop", NullState) >>,
      << EngineCall("push", state("B", <<>>)) >>,
      << EngineCall("set", state("A", <<>>)) >> }

HookBodies ==
    { <<>>,
      << EngineCall("pop", NullState) >> }

\* The entry on() creates when the host assigns nothing to it: a default
\* constructed std::function, which throws std::bad_function_call when it
\* is invoked.
Unassigned == << EngineCall("bad_function_call", NullState) >>

Bodies(trigger) == IF trigger \in TriggerNames THEN TriggerBodies ELSE HookBodies

Keys == StateNames \X (TriggerNames \cup HookNames(variant))

\* --------------------------------------------------------------- frames ----
\* One record shape for every frame: fn/pc say where it is, the rest are the
\* locals of the function (unused ones keep their defaults).
\*   arg      the function's argument (state or trigger)
\*   it       command: the level the walk is at (0 = rend)
\*   aborted  command: the saved reverse iterators; pos = the level an
\*            iterator refers to, ok = its base() iterator is still valid
\*   j        command: index into aborted of the cancel loop
\*   ref      replace: the level `current` refers to, refok = still valid
\*   body, i  handler: its engine calls and the next one to make
\*   val      the value the function returns ("void" if none)
Frame(fn, arg) ==
    [fn |-> fn, pc |-> "start", arg |-> arg, it |-> 0, aborted |-> <<>>,
     j |-> 0, ref |-> 0, refok |-> TRUE, body |-> <<>>, i |-> 0,
     val |-> "void"]

\* a handler invocation that passes no arguments on
HandlerFrameDropsArgs(body, args) ==
    [Frame("handler", state("", <<>>)) EXCEPT !.body = body, !.i = 1]

HandlerFrame(body, args) ==
    [Frame("handler", state("", args)) EXCEPT !.body = body, !.i = 1]

Top   == frames[Len(frames)]
Below == SubSeq(frames, 1, Len(frames) - 1)
At(pc_fn, pc) ==
    /\ status \in {"setup", "alive"}
    /\ frames # <<>>
    /\ Top.fn = pc_fn
    /\ Top.pc = pc

\* ------------------------------------------- iterator / reference rules ----
\* std::deque::push_back invalidates every iterator and no reference.
AfterPushBack(fs) ==
    [k \in DOMAIN fs |->
        [fs[k] EXCEPT !.aborted =
            [m \in DOMAIN @ |-> [@[m] EXCEPT !.ok = FALSE]]]]

\* Erasing element p of n.  The last element: the iterators and references
\* to it and the past-the-end iterator go.  The first: those to it.  Any
\* other: all of them.  A reverse iterator that refers to level q holds the
\* base() iterator of level q+1.
AfterErase(fs, p, n) ==
    [k \in DOMAIN fs |->
        [fs[k] EXCEPT
            !.aborted = [m \in DOMAIN @ |->
                [@[m] EXCEPT !.ok =
                    IF p = n THEN @ /\ (fs[k].aborted[m].pos + 1) \notin {n, n + 1}
                    ELSE IF p = 1 THEN @ /\ (fs[k].aborted[m].pos + 1) # 1
                    ELSE FALSE]],
            !.refok =
                IF p = n \/ p = 1 THEN @ /\ fs[k].ref # p ELSE FALSE]]

RemoveAt(s, p) == SubSeq(s, 1, p - 1) \o SubSeq(s, p + 1, Len(s))

\* ---------------------------------------------------------------- trace ----
\* What the running operation has done, in order:
\*   "call"  call(from, to) found an entry and invokes the handler
\*   "miss"  call(from, to) found no entry
\*   "push_back", "pop_back", "erase", "assign"
\*           an edit of the deque (from = the state written or removed)
\* stack = the deque right after the event, by = the call-stack depth of
\* the engine function that did it (1 = the host's own call).
Event(ev, from, to, dq) ==
    [ev |-> ev, from |-> from, to |-> to, stack |-> dq, by |-> Len(frames)]

\* ------------------------------------------------------- fsm::stack::call ----
\* callbacks.find( bistate(from,to) ) != callbacks.end()
Found(from, to) == bistate(from, to) \in DOMAIN callbacks

\* a call() that writes its record twice
LogPushTwice(l, rec) == Append(Append(l, rec), rec)

\* a log that drops the newest record when it is full
LogPushDropsNewest(l, rec) ==
    LET l2 == Append(l, rec)
    IN  IF Len(l2) > LogCap THEN SubSeq(l2, 1, LogCap) ELSE l2

\* log.push_back( { from, current_trigger, to } ); drop the oldest beyond 50
LogPush(l, rec) ==
    LET l2 == Append(l, rec)
    IN  IF Len(l2) > LogCap THEN Tail(l2) ELSE l2

\* a call() that leaves the eviction of the oldest record for later
CallFoundKeepsOverflow(from, to, ct, tr, dq, below, cont) ==
    /\ log' = Append(log, [previous |-> from, trigger |-> ct, current |-> to])
    /\ trace' = Append(tr, Event("call", from, to, dq))
    /\ frames' = below \o
           <<cont, HandlerFrame(callbacks[bistate(from, to)], to.args)>>

\* call(from, to) where an entry is found: the record is logged (ct is the
\* current trigger at that moment), then found->second( to.args ) runs; the
\* caller resumes as `cont` when the handler returns.  tr, dq, below: the
\* trace, deque and lower frames as the action leaves them before the call.
CallFound(from, to, ct, tr, dq, below, cont) ==
    /\ log' = LogPush(log, [previous |-> from, trigger |-> ct, current |-> to])
    /\ trace' = Append(tr, Event("call", from, to, dq))
    /\ frames' = below \o
           <<cont, HandlerFrame(callbacks[bistate(from, to)], to.args)>>

\* call(from, to) where no entry is found: it returns false, nothing changes.
Missed(tr, from, to, dq) == Append(tr, Event("miss", from, to, dq))

\* The function of the top frame returns v; fs are the frames below it.
ReturnTo(fs, v) ==
    /\ frames' = fs
    /\ ret' = IF fs = <<>> THEN v ELSE ret

\* A function resumes after the handler its last statement invoked: it returns.
Finish ==
    /\ At(Top.fn, "ret")
    /\ ReturnTo(Below, Top.val)
    /\ UNCHANGED <<host, states, triggers, variant, callbacks, deque, log, current_trigger, status, ub,
                   op, pre, trace>>

\* Undefined behaviour that stops the program.
Crash ==
    /\ frames' = <<>>
    /\ status' = "crashed"
    /\ ub' = TRUE
    /\ ret' = "crash"
    /\ UNCHANGED <<host, states, triggers, variant, callbacks, deque, log, current_trigger, op, pre, trace>>

Hook(name) == state(name, <<>>)
Goto(pc) == [Top EXCEPT !.pc = pc]
Back(dq) == dq[Len(dq)]

\* ------------------------------------------------------- fsm::stack::push ----
\* PushAppend that does not call the 'init' hook of the new level
PushAppendSkipsInit(tr) ==
    LET dq  == Append(deque, Top.arg)
        fs  == AfterPushBack(Below)
        tr1 == Append(tr, Event("push_back", Top.arg, NullState, dq))
    IN  /\ deque' = dq
        /\ log' = log
        /\ trace' = tr1
        /\ ReturnTo(fs, "void")

\* deque.push_back( state ); call( deque.back(), 'init' );
PushAppend(tr) ==
    LET dq  == Append(deque, Top.arg)
        fs  == AfterPushBack(Below)
        tr1 == Append(tr, Event("push_back", Top.arg, NullState, dq))
        to  == Hook(HookInit(variant))
    IN  /\ deque' = dq
        /\ IF Found(Back(dq), to)
           THEN /\ CallFound(Back(dq), to, current_trigger, tr1, dq, fs, Goto("ret"))
                /\ UNCHANGED ret
           ELSE /\ log' = log
                /\ trace' = Missed(tr1, Back(dq), to, dq)
                /\ ReturnTo(fs, "void")

\* if( deque.size() && deque.back() == state ) return;
\* call( deque.back(), 'push' ); ...
\* On an empty deque back() is undefined: the program stops, or reads a dead
\* slot whose key finds no handler.
PushStart ==
    /\ At("push", "start")
    /\ IF deque # <<>> /\ SameState(Back(deque), Top.arg)
       THEN /\ ReturnTo(Below, "void")
            /\ UNCHANGED <<deque, log, trace, status, ub>>
       ELSE IF deque = <<>>
       THEN \/ /\ frames' = <<>>
               /\ status' = "crashed"
               /\ ub' = TRUE
               /\ ret' = "crash"
               /\ UNCHANGED <<deque, log, trace>>
            \/ /\ PushAppend(trace)
               /\ ub' = TRUE
               /\ UNCHANGED status
       ELSE LET to == Hook(HookPush(variant))
            IN  /\ IF Found(Back(deque), to)
                   THEN /\ CallFound(Back(deque), to, current_trigger, trace,
                                     deque, Below, Goto("append"))
                        /\ UNCHANGED <<deque, ret>>
                   ELSE PushAppend(Missed(trace, Back(deque), to, deque))
                /\ UNCHANGED <<status, ub>>
    /\ UNCHANGED <<host, states, triggers, variant, callbacks, current_trigger, op, pre>>

\* push resumes after the 'push' handler of the paused state
PushResume ==
    /\ At("push", "append")
    /\ PushAppend(trace)
    /\ UNCHANGED <<host, states, triggers, variant, callbacks, current_trigger, status, ub, op, pre>>

\* -------------------------------------------------------- fsm::stack::pop ----
\* PopRemove that does not call the 'back' hook of the exposed level
PopRemoveSkipsBack(tr) ==
    LET n   == Len(deque)
        dq  == SubSeq(deque, 1, n - 1)
        fs  == AfterErase(Below, n, n)
        tr1 == Append(tr, Event("pop_back", deque[n], NullState, dq))
    IN  /\ deque' = dq
        /\ log' = log
        /\ trace' = tr1
        /\ ReturnTo(fs, "void")

\* deque.pop_back(); } if( deque.size() ) call( deque.back(), 'back' );
PopRemove(tr) ==
    LET n   == Len(deque)
        dq  == SubSeq(deque, 1, n - 1)
        fs  == AfterErase(Below, n, n)
        tr1 == Append(tr, Event("pop_back", deque[n], NullState, dq))
        to  == Hook(HookBack(variant))
    IN  /\ deque' = dq
        /\ IF dq # <<>> /\ Found(Back(dq), to)
           THEN /\ CallFound(Back(dq), to, current_trigger, tr1, dq, fs, Goto("ret"))
                /\ UNCHANGED ret
           ELSE /\ log' = log
                /\ trace' = IF dq # <<>> THEN Missed(tr1, Back(dq), to, dq) ELSE tr1
                /\ ReturnTo(fs, "void")

\* PopStart that removes the level without looking its 'quit' hook up
PopStartSkipsQuit ==
    /\ At("pop", "start")
    /\ IF deque = <<>>
       THEN /\ ReturnTo(Below, "void")
            /\ UNCHANGED <<deque, log, trace>>
       ELSE PopRemove(trace)
    /\ UNCHANGED <<host, states, triggers, variant, callbacks, current_trigger, status, ub, op, pre>>

\* if( deque.size() ) { call( deque.back(), 'quit' ); ...
PopStart ==
    /\ At("pop", "start")
    /\ IF deque = <<>>
       THEN /\ ReturnTo(Below, "void")
            /\ UNCHANGED <<deque, log, trace>>
       ELSE LET to == Hook(HookQuit(variant))
            IN  IF Found(Back(deque), to)
                THEN /\ CallFound(Back(deque), to, current_trigger, trace,
                                  deque, Below, Goto("remove"))
                     /\ UNCHANGED <<deque, ret>>
                ELSE PopRemove(Missed(trace, Back(deque), to, deque))
    /\ UNCHANGED <<host, states, triggers, variant, callbacks, current_trigger, status, ub, op, pre>>

\* pop resumes after the 'quit' handler.  pop_back() on a deque the handler
\* emptied is undefined: the program stops.
PopResume ==
    /\ At("pop", "remove")
    /\ IF deque = <<>>
       THEN Crash
       ELSE /\ PopRemove(trace)
            /\ UNCHANGED <<host, states, triggers, variant, callbacks, current_trigger, status, ub, op, pre>>


\* ------------------------------------------------------ engine call depth ----
Handlers(fs) == {k \in DOMAIN fs : fs[k].fn = "handler"}

\* The top frame (left as `cont`) calls the engine function fn(arg).
Invoke(cont, fn, arg) ==
    /\ frames' = Below \o <<cont, Frame(fn, arg)>>
    /\ UNCHANGED <<status, ret>>

\* The modelled call stack is exhausted: the behaviour is cut here.
TooDeep ==
    /\ frames' = <<>>
    /\ status' = "depth"
    /\ ret' = "depth"

\* -------------------------------------------- fsm::stack::set and replace ----
\* a replace that appends the next state instead of overwriting the current
ReplaceAssignAppends(tr, ref, written) ==
    LET dq  == Append(deque, Top.arg)
        tr1 == Append(tr, Event("assign", Top.arg, NullState, dq))
        to  == Hook(HookInit(variant))
    IN  /\ deque' = dq
        /\ IF Found(Top.arg, to)
           THEN /\ CallFound(Top.arg, to, current_trigger, tr1, dq, Below, Goto("ret"))
                /\ UNCHANGED ret
           ELSE /\ log' = log
                /\ trace' = Missed(tr1, Top.arg, to, dq)
                /\ ReturnTo(Below, "void")

\* replace: current = next; call( current, 'init' );
\* `current` is a reference to level ref of the deque; written says whether
\* the write reaches the deque.
ReplaceAssign(tr, ref, written) ==
    LET dq  == IF written THEN [deque EXCEPT ![ref] = Top.arg] ELSE deque
        tr1 == Append(tr, Event("assign", Top.arg, NullState, dq))
        to  == Hook(HookInit(variant))
    IN  /\ deque' = dq
        /\ IF Found(Top.arg, to)
           THEN /\ CallFound(Top.arg, to, current_trigger, tr1, dq, Below, Goto("ret"))
                /\ UNCHANGED ret
           ELSE /\ log' = log
                /\ trace' = Missed(tr1, Top.arg, to, dq)
                /\ ReturnTo(Below, "void")

\* SetStart that returns at once when the state is the current one, as push does
SetStartSkipsSelf ==
    /\ At("set", "start")
    /\ IF deque = <<>>
       THEN /\ Invoke(Goto("ret"), "push", Top.arg)
            /\ UNCHANGED <<deque, log, trace>>
       ELSE IF SameState(Back(deque), Top.arg)
       THEN /\ ReturnTo(Below, "void")
            /\ UNCHANGED <<deque, log, trace, status>>
       ELSE LET to == Hook(HookQuit(variant))
            IN  IF Found(Back(deque), to)
                THEN /\ CallFound(Back(deque), to, current_trigger, trace, deque, Below,
                           [Goto("assign") EXCEPT !.ref = Len(deque), !.refok = TRUE])
                     /\ UNCHANGED <<deque, status, ret>>
                ELSE /\ ReplaceAssign(Missed(trace, Back(deque), to, deque),
                                      Len(deque), TRUE)
                     /\ UNCHANGED status
    /\ UNCHANGED <<host, states, triggers, variant, callbacks, current_trigger, ub, op, pre>>

\* set:     if( deque.size() ) replace( deque.back(), state ); else push( state );
\* replace: call( current, 'quit' ); ...
SetStart ==
    /\ At("set", "start")
    /\ IF deque = <<>>
       THEN /\ Invoke(Goto("ret"), "push", Top.arg)
            /\ UNCHANGED <<deque, log, trace>>
       ELSE LET to == Hook(HookQuit(variant))
            IN  IF Found(Back(deque), to)
                THEN /\ CallFound(Back(deque), to, current_trigger, trace, deque, Below,
                           [Goto("assign") EXCEPT !.ref = Len(deque), !.refok = TRUE])
                     /\ UNCHANGED <<deque, status, ret>>
                ELSE /\ ReplaceAssign(Missed(trace, Back(deque), to, deque),
                                      Len(deque), TRUE)
                     /\ UNCHANGED status
    /\ UNCHANGED <<host, states, triggers, variant, callbacks, current_trigger, ub, op, pre>>

\* replace resumes after the 'quit' handler.  Writing through a reference to
\* an element that was erased meanwhile is undefined: the program stops, or
\* the write lands in the slot (a live element if the slot is in use again,
\* nothing visible otherwise).
ReplaceResume ==
    /\ At("set", "assign")
    /\ \/ /\ Top.refok
          /\ ReplaceAssign(trace, Top.ref, TRUE)
          /\ UNCHANGED <<host, states, triggers, variant, callbacks, current_trigger, status, ub, op, pre>>
       \/ /\ ~Top.refok
          /\ Crash
       \/ /\ ~Top.refok
          /\ ReplaceAssign(trace, Top.ref, Top.ref <= Len(deque))
          /\ ub' = TRUE
          /\ UNCHANGED <<host, states, triggers, variant, callbacks, current_trigger, status, op, pre>>

\* --------------------------------------------------------------- handlers ----
\* found->second( to.args ): the handler makes its engine calls one after
\* the other and returns into call(), which returns true to its caller.
\* An empty std::function throws instead; nothing in the engine catches, the
\* exception leaves the host's operation where it is.
HandlerStep ==
    /\ At("handler", "start")
    /\ IF Top.i > Len(Top.body)
       THEN /\ ReturnTo(Below, "void")
            /\ UNCHANGED status
       ELSE IF Top.body = Unassigned
       THEN /\ frames' = <<>>
            /\ status' = "thrown"
            /\ ret' = "bad_function_call"
       ELSE IF Cardinality(Handlers(frames)) > MaxNest
       THEN TooDeep
       ELSE Invoke([Top EXCEPT !.i = @ + 1], Top.body[Top.i].fn, Top.body[Top.i].arg)
    /\ UNCHANGED <<host, states, triggers, variant, callbacks, deque, log, current_trigger, ub, op, pre, trace>>

\* ---------------------------------------- fsm::stack::command / ::exec ----
\* The levels of dq from the innermost outwards, as far as the first one
\* that has an entry for trigger (all of them if none has).
RECURSIVE Walk(_, _, _)
\* Walk that settles on the outermost level that has an entry
WalkToOutermost(dq, it, trigger) ==
    LET acc == {p \in 1..it : Found(dq[p], trigger)}
        k   == IF acc = {} THEN 0 ELSE CHOOSE x \in acc : \A y \in acc : x <= y
    IN  [m \in 1..(it - k) |-> it - m + 1]

Walk(dq, it, trigger) ==
    IF it = 0 \/ Found(dq[it], trigger)
    THEN <<>>
    ELSE <<it>> \o Walk(dq, it - 1, trigger)

RECURSIVE MissedAll(_, _, _, _)
MissedAll(tr, dq, levels, trigger) ==
    IF levels = <<>>
    THEN tr
    ELSE MissedAll(Missed(tr, dq[Head(levels)], trigger, dq), dq, Tail(levels), trigger)

\* CommandStart that resets current_trigger before it looks at the size
CommandStartResetsFirst ==
    /\ At("command", "start")
    /\ current_trigger' = DefaultState(variant)
    /\ IF deque = <<>>
       THEN ReturnTo(Below, "false")
       ELSE /\ frames' = Below \o <<Goto("walk")>>
            /\ UNCHANGED ret
    /\ UNCHANGED <<host, states, triggers, variant, callbacks, deque, log, status, ub, op, pre, trace>>

\* CommandStart without the reset of current_trigger
CommandStartKeepsTrigger ==
    /\ At("command", "start")
    /\ IF deque = <<>>
       THEN ReturnTo(Below, "false")
       ELSE /\ frames' = Below \o <<Goto("walk")>>
            /\ UNCHANGED ret
    /\ UNCHANGED <<host, states, triggers, variant, callbacks, deque, log, current_trigger, status, ub,
                   op, pre, trace>>

\* size_t size = this->size(); if( !size ) return false;
\* current_trigger = fsm::state();
CommandStart ==
    /\ At("command", "start")
    /\ IF deque = <<>>
       THEN /\ ReturnTo(Below, "false")
            /\ UNCHANGED current_trigger
       ELSE /\ current_trigger' = DefaultState(variant)
            /\ frames' = Below \o <<Goto("walk")>>
            /\ UNCHANGED ret
    /\ UNCHANGED <<host, states, triggers, variant, callbacks, deque, log, status, ub, op, pre, trace>>

\* CommandWalk that tears the innermost level down when no level accepts
CommandWalkTearsDown ==
    /\ At("command", "walk")
    /\ LET declined == Walk(deque, Len(deque), Top.arg)
           it       == Len(deque) - Len(declined)
           tr       == MissedAll(trace, deque, declined, Top.arg)
       IN  IF it = 0
           THEN /\ ReturnTo(Below, "false")
                /\ trace' = tr
                /\ log' = log
                /\ deque' = SubSeq(deque, 1, Len(deque) - 1)
           ELSE /\ CallFound(deque[it], Top.arg, current_trigger, tr, deque, Below,
                      [Goto("cancel") EXCEPT
                         !.it = it,
                         !.aborted = [m \in DOMAIN declined |->
                                        [pos |-> declined[m], ok |-> TRUE]],
                         !.j = 1])
                /\ UNCHANGED <<deque, ret>>
    /\ UNCHANGED <<host, states, triggers, variant, callbacks, current_trigger, status, ub, op, pre>>

\* CommandWalk that removes the declined levels before it runs the handler
CommandWalkCancelsFirst ==
    /\ At("command", "walk")
    /\ LET declined == Walk(deque, Len(deque), Top.arg)
           it       == Len(deque) - Len(declined)
           tr       == MissedAll(trace, deque, declined, Top.arg)
           dq       == SubSeq(deque, 1, it)
       IN  IF it = 0
           THEN /\ ReturnTo(Below, "false")
                /\ trace' = tr
                /\ log' = log
                /\ UNCHANGED deque
           ELSE /\ deque' = dq
                /\ CallFound(deque[it], Top.arg, current_trigger, tr, dq, Below,
                      [Goto("cancel") EXCEPT !.it = it, !.j = 1])
                /\ UNCHANGED ret
    /\ UNCHANGED <<host, states, triggers, variant, callbacks, current_trigger, status, ub, op, pre>>

\* for( it = deque.rbegin(); it != deque.rend(); ++it ) {
\*     if( !call(*it, trigger) ) { aborted.push_back(it); continue; }
\*     ... the cancel loop, return true ...
\* } return false;
CommandWalk ==
    /\ At("command", "walk")
    /\ LET declined == Walk(deque, Len(deque), Top.arg)
           it       == Len(deque) - Len(declined)
           tr       == MissedAll(trace, deque, declined, Top.arg)
       IN  IF it = 0
           THEN /\ ReturnTo(Below, "false")
                /\ trace' = tr
                /\ log' = log
           ELSE /\ CallFound(deque[it], Top.arg, current_trigger, tr, deque, Below,
                      [Goto("cancel") EXCEPT
                         !.it = it,
                         !.aborted = [m \in DOMAIN declined |->
                                        [pos |-> declined[m], ok |-> TRUE]],
                         !.j = 1])
                /\ UNCHANGED ret
    /\ UNCHANGED <<host, states, triggers, variant, callbacks, deque, current_trigger, status, ub, op, pre>>

\* deque.erase( --(it->base()) ) for the saved iterator a; the cancel loop
\* goes on with the next saved iterator.
Erase(a, tr) ==
    LET n  == Len(deque)
        dq == RemoveAt(deque, a.pos)
    IN  /\ deque' = dq
        /\ frames' = AfterErase(Below \o <<[Goto("cancel") EXCEPT !.j = @ + 1]>>,
                                a.pos, n)
        /\ trace' = Append(tr, Event("erase", deque[a.pos], NullState, dq))
        /\ log' = log

\* deque.erase( pos ) for a saved iterator whose position lies past the last
\* element (the handler removed the level meanwhile): undefined.  What the
\* unchecked builds do: nothing is moved and the last element is popped.
ErasePastEnd(tr) ==
    LET n  == Len(deque)
        dq == SubSeq(deque, 1, n - 1)
    IN  /\ deque' = dq
        /\ frames' = AfterErase(Below \o <<[Goto("cancel") EXCEPT !.j = @ + 1]>>,
                                n, n)
        /\ trace' = Append(tr, Event("erase", deque[n], NullState, dq))
        /\ log' = log

\* a cancel loop that calls nothing in either revision
CancelHooksNone(v) == {}

\* What the cancel loop calls on a level before it erases it:
\*   integer keys:  call( **it, 'quit' );
\*   string keys:   (*it)->end();   which is std::string::end() of the state
\*                                  and calls nothing
CancelHooks(v) == IF v = "int" THEN {HookQuit(v)} ELSE {}

\* The cancel loop, one saved iterator:
\*   for( it = aborted.begin(); it != end; ++it ) {
\*       call( **it, 'quit' ); deque.erase( --(it->base()) ); }
\* A saved iterator that was invalidated is used all the same: the program
\* stops, or goes on with the slot the iterator points at.  A slot in use
\* holds a level of the stack; a slot past the last element holds the
\* remains of a removed state, which read as some state.
CommandCancel ==
    /\ At("command", "cancel")
    /\ Top.j <= Len(Top.aborted)
    /\ LET a == Top.aborted[Top.j]
       IN  \/ /\ ~a.ok
              /\ Crash
           \/ /\ ~a.ok
              /\ a.pos > Len(deque)
              /\ deque # <<>>
              /\ ub' = TRUE
              /\ IF CancelHooks(variant) = {}
                 THEN ErasePastEnd(trace)
                 ELSE \E n \in StateNames :
                      LET dead == state(n, <<>>)
                          to   == Hook(CHOOSE h \in CancelHooks(variant) : TRUE)
                      IN  IF Found(dead, to)
                          THEN /\ CallFound(dead, to, current_trigger, trace,
                                            deque, Below, Goto("erase"))
                               /\ UNCHANGED deque
                          ELSE ErasePastEnd(Missed(trace, dead, to, deque))
              /\ UNCHANGED <<host, states, triggers, variant, callbacks, current_trigger, status,
                             op, pre, ret>>
           \/ /\ a.ok \/ a.pos \in 1..Len(deque)
              /\ ub' = (ub \/ ~a.ok)
              /\ IF CancelHooks(variant) = {}
                 THEN Erase(a, trace)
                 ELSE LET to == Hook(CHOOSE h \in CancelHooks(variant) : TRUE)
                      IN  IF Found(deque[a.pos], to)
                          THEN /\ CallFound(deque[a.pos], to, current_trigger, trace,
                                            deque, Below, Goto("erase"))
                               /\ UNCHANGED deque
                          ELSE Erase(a, Missed(trace, deque[a.pos], to, deque))
              /\ UNCHANGED <<host, states, triggers, variant, callbacks, current_trigger, status,
                             op, pre, ret>>

\* CommandReturn that does not record the trigger
CommandReturnKeepsTrigger ==
    /\ At("command", "cancel")
    /\ Top.j > Len(Top.aborted)
    /\ ReturnTo(Below, "true")
    /\ UNCHANGED <<host, states, triggers, variant, callbacks, deque, log, current_trigger, status, ub,
                   op, pre, trace>>

\* CommandReturn that resumes the level the cancel loop has exposed, as pop does
CommandReturnResumes ==
    /\ At("command", "cancel")
    /\ Top.j > Len(Top.aborted)
    /\ current_trigger' = Top.arg
    /\ LET to == Hook(HookBack(variant))
       IN  IF Top.aborted = <<>> \/ deque = <<>>
           THEN /\ ReturnTo(Below, "true")
                /\ UNCHANGED <<log, trace>>
           ELSE IF Found(Back(deque), to)
           THEN /\ CallFound(Back(deque), to, Top.arg, trace, deque, Below,
                             [Goto("ret") EXCEPT !.val = "true"])
                /\ UNCHANGED ret
           ELSE /\ trace' = Missed(trace, Back(deque), to, deque)
                /\ log' = log
                /\ ReturnTo(Below, "true")
    /\ UNCHANGED <<host, states, triggers, variant, callbacks, deque, status, ub, op, pre>>

\* after the cancel loop:  current_trigger = trigger; return true;
CommandReturn ==
    /\ At("command", "cancel")
    /\ Top.j > Len(Top.aborted)
    /\ current_trigger' = Top.arg
    /\ ReturnTo(Below, "true")
    /\ UNCHANGED <<host, states, triggers, variant, callbacks, deque, log, status, ub, op, pre, trace>>

\* integer keys: the cancel loop resumes after the 'quit' handler
CommandEraseResume ==
    /\ At("command", "erase")
    /\ LET a == Top.aborted[Top.j]
       IN  \/ /\ ~a.ok
              /\ Crash
           \/ /\ ~a.ok
              /\ a.pos > Len(deque)
              /\ deque # <<>>
              /\ ub' = TRUE
              /\ ErasePastEnd(trace)
              /\ UNCHANGED <<host, states, triggers, variant, callbacks, current_trigger, status,
                             op, pre, ret>>
           \/ /\ a.ok \/ a.pos \in 1..Len(deque)
              /\ ub' = (ub \/ ~a.ok)
              /\ Erase(a, trace)
              /\ UNCHANGED <<host, states, triggers, variant, callbacks, current_trigger, status,
                             op, pre, ret>>

\* ------------------------------------------------------------ the host ----
Snapshot == [deque |-> deque, log |-> log, current_trigger |-> current_trigger]

Idle ==
    /\ status \in {"setup", "alive"}
    /\ frames = <<>>

\* fsm.on(from, to) = handler, while the host sets the machine up:
\* callbacks[ bistate(from,to) ] = handler
HostOn ==
    /\ Idle
    /\ status = "setup"
    /\ \E k \in Keys : \E b \in Bodies(k[2]) :
          /\ k \in DOMAIN callbacks \/ Cardinality(DOMAIN callbacks) < MaxHandlers
          /\ callbacks' = (k :> b) @@ callbacks
    /\ UNCHANGED <<host, states, triggers, variant, deque, log, current_trigger, frames, status, ub,
                   op, pre, trace, ret>>

\* The host calls fn(arg) on the idle machine.
HostCall(fn, arg) ==
    /\ Idle
    /\ Len(log) < MaxLog
    /\ frames' = <<Frame(fn, arg)>>
    /\ status' = "alive"
    /\ op' = EngineCall(fn, arg)
    /\ pre' = Snapshot
    /\ trace' = <<>>
    /\ ret' = "pending"
    /\ UNCHANGED <<host, states, triggers, variant, callbacks, deque, log, current_trigger, ub>>

\* The arguments of a pushed state matter to the engine in one place, the
\* comparison with the current state, so they are drawn there only.
HostPush ==
    /\ Len(deque) < MaxDepth
    /\ \E n \in StateNames, a \in ArgLists :
          /\ a # <<>> => (deque # <<>> /\ Back(deque).name = n)
          /\ HostCall("push", state(n, a))

HostPop == HostCall("pop", NullState)

HostSet ==
    /\ Len(deque) <= MaxDepth
    /\ \E n \in StateNames : HostCall("set", state(n, <<>>))

HostCommand ==
    /\ Len(deque) <= MaxDepth
    /\ \E n \in TriggerNames, a \in ArgLists : HostCall("command", state(n, a))

\* ------------------------------------------------------- the destructor ----
\* The host destroys the machine.
HostDestroy ==
    /\ Idle
    /\ frames' = <<Frame("~stack", NullState)>>
    /\ status' = "alive"
    /\ op' = EngineCall("~stack", NullState)
    /\ pre' = Snapshot
    /\ trace' = <<>>
    /\ ret' = "pending"
    /\ UNCHANGED <<host, states, triggers, variant, callbacks, deque, log, current_trigger, ub>>

\* a destructor that pops once
DestructorPopsOnce ==
    /\ At("~stack", "start")
    /\ IF deque = <<>> \/ trace # <<>>
       THEN /\ frames' = <<>>
            /\ status' = "dead"
            /\ ret' = "void"
       ELSE Invoke(Top, "pop", NullState)
    /\ UNCHANGED <<host, states, triggers, variant, callbacks, deque, log, current_trigger, ub, op, pre, trace>>

\* ~stack() { while( size() ) { pop(); } }
Destructor ==
    /\ At("~stack", "start")
    /\ IF deque = <<>>
       THEN /\ frames' = <<>>
            /\ status' = "dead"
            /\ ret' = "void"
       ELSE Invoke(Top, "pop", NullState)
    /\ UNCHANGED <<host, states, triggers, variant, callbacks, deque, log, current_trigger, ub, op, pre, trace>>

\* ------------------------------------------------------ the constructor ----
\* A constructor that runs a handler of the 'init' hook of the start state
CtorTraceRunsHandler(start) ==
    << [ev |-> "call", from |-> start, to |-> Hook(HookInit(variant)),
        stack |-> <<start>>, by |-> 1] >>

\* stack( start ) : deque(1) { deque[0] = start; call( deque.back(), 'init' ); }
\* What the constructor's call() does, given the callbacks map as it is
\* while the constructor runs.
CtorTrace(start) ==
    << [ev |-> IF Found(start, Hook(HookInit(variant))) THEN "call" ELSE "miss",
        from |-> start, to |-> Hook(HookInit(variant)),
        stack |-> <<start>>, by |-> 1] >>

\* a constructor that logs its lookup of the 'init' hook whether or not an
\* entry is found
CtorLogAlways(start) ==
    <<[previous |-> start, trigger |-> DefaultState(variant),
       current |-> Hook(HookInit(variant))]>>

CtorLog(start) ==
    IF Found(start, Hook(HookInit(variant)))
    THEN <<[previous |-> start, trigger |-> DefaultState(variant),
            current |-> Hook(HookInit(variant))]>>
    ELSE <<>>

\* ------------------------------------------------------- specification ----
\* fsm::stack::stack( start ) : deque(1) { deque[0] = start;
\*                                        call( deque.back(), 'init' ); }
\* The callbacks map is empty while the constructor runs, so its call() finds
\* nothing and logs nothing.
Init ==
    /\ variant \in {"int", "str"}
    /\ host = NoHost
    /\ states = <<>>
    /\ triggers = <<>>
    /\ callbacks = <<>>
    /\ \E n \in StateNames : deque = <<state(n, <<>>)>>
    /\ log = CtorLog(deque[1])
    /\ current_trigger = DefaultState(variant)
    /\ frames = <<>>
    /\ status = "setup"
    /\ ub = FALSE
    /\ op = EngineCall("stack", deque[1])
    /\ pre = [deque |-> <<>>, log |-> <<>>, current_trigger |-> DefaultState(variant)]
    /\ trace = CtorTrace(deque[1])
    /\ ret = "void"

Next ==
    \/ HostOn
    \/ HostPush
    \/ HostPop
    \/ HostSet
    \/ HostCommand
    \/ PushStart
    \/ PushResume
    \/ PopStart
    \/ PopResume
    \/ SetStart
    \/ ReplaceResume
    \/ HandlerStep
    \/ CommandStart
    \/ CommandWalk
    \/ CommandCancel
    \/ CommandReturn
    \/ CommandEraseResume
    \/ HostDestroy
    \/ Destructor
    \/ Finish

Spec == Init /\ [][Next]_vars


\* ------------------------------------------------------------ getters ----
RECURSIVE Joined(_)
Joined(args) ==
    IF args = <<>> THEN ""
    ELSE IF Len(args) = 1 THEN args[1]
    ELSE args[1] \o "," \o Joined(Tail(args))

\* get_trigger(): integer keys print the symbol, name "(" arguments ")";
\* string keys return current_trigger as a std::string, which is its name
get_trigger(v, ct) ==
    IF v = "int" THEN ct.name \o "(" \o Joined(ct.args) \o ")" ELSE ct.name

\* a % b of C++ for b > 0: the quotient is truncated towards zero, so the
\* remainder of a negative a is zero or negative
CRem(a, b) == IF a >= 0 \/ a % b = 0 THEN a % b ELSE (a % b) - b

\* an index whose negative branch leaves the + 1 out
ExtIndexOffByOne(pos, size) ==
    IF pos >= 0 THEN pos % size ELSE size - 1 + CRem(pos, size)

\* The extended index of get_state and get_log:
\*   pos >= 0 ? pos % size : size - 1 + ((pos+1) % size)
ExtIndex(pos, size) ==
    IF pos >= 0 THEN pos % size ELSE size - 1 + CRem(pos + 1, size)

\* get_state( pos ): size ? *( deque.begin() + index ) : fsm::state()
get_state(v, dq, pos) ==
    IF dq = <<>> THEN DefaultState(v) ELSE dq[1 + ExtIndex(pos, Len(dq))]

\* get_log( pos ): size ? *( log.begin() + index ) : fsm::transition()
get_log(v, l, pos) ==
    IF l = <<>>
    THEN [previous |-> DefaultState(v), trigger |-> DefaultState(v),
          current |-> DefaultState(v)]
    ELSE l[1 + ExtIndex(pos, Len(l))]

\* ---------------------------------------------- the operation observed ----
\* The host's operation has returned.
Returned == frames = <<>> /\ ret \in {"void", "true", "false"}

\* ... or the program has stopped inside it.
Ended == Returned \/ (frames = <<>> /\ ret = "crash")

\* The events of the host's own call, and those of calls handlers made.
Own(tr)    == SelectSeq(tr, LAMBDA e : e.by = 1)
Nested(tr) == SelectSeq(tr, LAMBDA e : e.by > 1)
Calls(tr)  == SelectSeq(tr, LAMBDA e : e.ev = "call")

\* The levels of d that have a handler for trigger t.
Accepting(d, t) == {p \in 1..Len(d) : Found(d[p], t)}
Max(S) == CHOOSE x \in S : \A y \in S : y <= x

\* The T handler runs of a trace.
RunsOf(tr, t) == SelectSeq(tr, LAMBDA e : e.ev = "call" /\ e.to.name = t.name)

\* No registered handler makes an engine call.
PlainHandlers == \A k \in DOMAIN callbacks : callbacks[k] = <<>>

\* ----------------------------------------------------------------- C1 ----
\* C1 (as claimed): when levels k+1..n-1 of the stack have no handler for T
\* and level k has one that makes no engine call, command(T) runs that
\* handler exactly once and no other T handler, returns true and leaves the
\* stack equal to the former levels 0..k.  (Stated for hosts none of whose
\* handlers makes an engine call.)
C1_BubbleUpSuccess ==
    ( /\ op.fn = "command"
      /\ Ended
      /\ PlainHandlers
      /\ Accepting(pre.deque, op.arg) # {} )
    => LET k == Max(Accepting(pre.deque, op.arg))
       IN  /\ ret = "true"
           /\ deque = SubSeq(pre.deque, 1, k)
           /\ Len(RunsOf(trace, op.arg)) = 1
           /\ RunsOf(trace, op.arg)[1].from = pre.deque[k]

\* ----------------------------------------------------------------- C2 ----
\* C2: if no level of the stack has a handler for the trigger, command
\* returns false, the stack afterwards is exactly the stack before, and no
\* handler (of the trigger or of a lifecycle hook) runs.
C2_TotalFailure ==
    ( /\ op.fn = "command"
      /\ Ended
      /\ pre.deque # <<>>
      /\ Accepting(pre.deque, op.arg) = {} )
    => /\ ret = "false"
       /\ deque = pre.deque
       /\ Calls(trace) = <<>>
       /\ log = pre.log

\* a failed dispatch on a stack of two or more levels whose states have
\* lifecycle handlers registered
C2_Witness ==
    /\ op.fn = "command"
    /\ Returned
    /\ ret = "false"
    /\ Len(pre.deque) >= 2
    /\ deque = pre.deque
    /\ \E k \in DOMAIN callbacks : k[1] = Back(pre.deque).name

\* ----------------------------------------------------------------- C3 ----
\* C3 (as claimed): a dispatch that fails because no level accepts the
\* trigger leaves get_trigger() as it was before the call.
C3_TriggerUnchanged ==
    ( /\ op.fn = "command"
      /\ Returned
      /\ ret = "false"
      /\ pre.deque # <<>> )
    => get_trigger(variant, current_trigger)
         = get_trigger(variant, pre.current_trigger)

\* C3 (amended): a dispatch that fails because no level of a non-empty stack
\* accepts the trigger leaves the current trigger reset to the default
\* symbol fsm::state(), whatever it was before; only a dispatch on an empty
\* stack leaves it unchanged.
C3_TriggerReset ==
    ( /\ op.fn = "command"
      /\ Returned
      /\ ret = "false" )
    => IF pre.deque = <<>>
       THEN current_trigger = pre.current_trigger
       ELSE /\ current_trigger = DefaultState(variant)
            /\ get_trigger(variant, current_trigger)
                 = get_trigger(variant, DefaultState(variant))

\* a failed dispatch that follows a successful one
C3_Witness ==
    /\ op.fn = "command"
    /\ Returned
    /\ ret = "false"
    /\ pre.deque # <<>>
    /\ pre.current_trigger.name \in TriggerNames

\* --------------------------------------------------- shapes of events ----
\* Event e is call(from, hook or trigger named n): the handler runs exactly
\* when an entry is registered for the pair.
IsLookup(e, from, n) ==
    /\ e.ev \in {"call", "miss"}
    /\ e.from = from
    /\ e.to.name = n
    /\ (e.ev = "call") <=> (<<from.name, n>> \in DOMAIN callbacks)

IsEdit(e, ev, written) ==
    /\ e.ev = ev
    /\ e.from = written

\* ----------------------------------------------------------------- C4 ----
\* C4 (as claimed): while command dispatches a trigger, it invokes no handler
\* but handlers of the trigger; in particular it runs no `end` ('quit')
\* handler of a level it removes, even if one is registered.
C4_NoHandlerOfRemovedLevel ==
    op.fn = "command"
    => \A i \in DOMAIN trace :
          (trace[i].by = 1 /\ trace[i].ev = "call")
          => trace[i].to.name = op.arg.name

\* C4 (amended): when an outer level accepts a trigger, the two revisions
\* remove a declined inner level differently.  With integer keys command
\* looks up the 'quit' hook right before every erase, so the 'quit' handler
\* of the level runs if one is registered (and no other handler of it);
\* with string keys exec erases the level and invokes no handler of it.
\* That the state whose hook is looked up is the level erased, still on the
\* stack, is stated for dispatches that have used no invalidated iterator.
C4_CancelledLevelHooks ==
    op.fn = "command"
    => LET own == Own(trace)
       IN  /\ \A i \in DOMAIN own :
                 own[i].ev = "erase"
                 => IF variant = "int"
                    THEN /\ i > 1
                         /\ own[i - 1].ev \in {"call", "miss"}
                         /\ own[i - 1].to.name = HookQuit(variant)
                         /\ (own[i - 1].ev = "call")
                              <=> Found(own[i - 1].from, own[i - 1].to)
                         /\ ~ub => \E p \in DOMAIN own[i - 1].stack :
                                      own[i - 1].stack[p] = own[i - 1].from
                    ELSE /\ i > 1
                         /\ own[i - 1].ev \in {"call", "miss", "erase"}
                         /\ own[i - 1].to.name \in {op.arg.name, NullState.name}
           /\ \A i \in DOMAIN own :
                 own[i].ev = "call"
                 => own[i].to.name \in
                       {op.arg.name} \cup (IF variant = "int" THEN {HookQuit(variant)} ELSE {})
           /\ \A i \in DOMAIN trace :
                 (i > 1 /\ trace[i].by = 1 /\ trace[i].ev = "erase"
                        /\ trace[i - 1].by = 1 /\ variant = "int" /\ ~ub)
                 => trace[i].from = trace[i - 1].from

\* integer keys: a dispatch that returned true after running the 'quit'
\* handler of a declined level and erasing that level
C4_Witness ==
    /\ op.fn = "command"
    /\ Returned
    /\ ret = "true"
    /\ variant = "int"
    /\ \E i \in DOMAIN trace :
          /\ i > 1
          /\ trace[i].ev = "erase" /\ trace[i].by = 1
          /\ trace[i - 1].ev = "call" /\ trace[i - 1].by = 1
          /\ trace[i - 1].to.name = "quit"
          /\ trace[i - 1].from = trace[i].from
    /\ Len(deque) < Len(pre.deque)

\* ----------------------------------------------------------------- C5 ----
\* C5: command offers the trigger to the levels in order from the innermost
\* outwards, a level without a handler declines, and the walk stops at the
\* first level that has one.  If the innermost state has a handler, only
\* that handler runs, no ancestor is consulted and no level is removed.
C5_InnermostFirst ==
    op.fn = "command"
    => LET n   == Len(pre.deque)
           own == Own(trace)
           L   == SelectSeq(own, LAMBDA e : e.to.name = op.arg.name)
       IN  /\ \A k \in DOMAIN L :
                 /\ k <= n
                 /\ IsLookup(L[k], pre.deque[n - k + 1], op.arg.name)
                 /\ L[k].ev = "call" => k = Len(L)
                 /\ L[k].to = op.arg
           /\ (Ended /\ n > 0)
              => /\ L # <<>>
                 /\ L[Len(L)].ev = "miss" => (Len(L) = n /\ ret = "false")
           /\ (Ended /\ n > 0 /\ Found(pre.deque[n], op.arg))
              => /\ own = << [ev |-> "call", from |-> pre.deque[n], to |-> op.arg,
                              stack |-> pre.deque, by |-> 1] >>
                 /\ ret = "true"
                 /\ Nested(trace) = <<>> => deque = pre.deque

\* a dispatch on three levels, the innermost and an ancestor both having a
\* handler, that returned
C5_Witness ==
    /\ op.fn = "command"
    /\ Returned
    /\ Len(pre.deque) = 3
    /\ Found(pre.deque[3], op.arg)
    /\ \E p \in 1..2 : Found(pre.deque[p], op.arg)
                       /\ pre.deque[p].name # pre.deque[3].name
    /\ Len(trace) = 1
    /\ deque = pre.deque

\* ----------------------------------------------------------------- C6 ----
\* C6: a command(T) that returns true leaves T, with the arguments it was
\* dispatched with, as the current trigger, and the current trigger changes
\* nowhere but inside command.  get_trigger() prints it as name(arguments)
\* with integer keys; with string keys it returns the name.
C6_CurrentTrigger ==
    [][ /\ (op.fn = "command" /\ frames # <<>> /\ frames' = <<>> /\ ret' = "true")
           => /\ current_trigger' = op.arg
              /\ get_trigger(variant, current_trigger')
                   = IF variant = "int"
                     THEN op.arg.name \o "(" \o Joined(op.arg.args) \o ")"
                     ELSE op.arg.name
        /\ (current_trigger' # current_trigger)
           => (frames # <<>> /\ Top.fn = "command")
        /\ (frames = <<>> /\ frames' # <<>> /\ op'.fn # "command")
           => current_trigger' = current_trigger
      ]_vars

\* a push has returned after a successful command with an argument, and
\* the trigger with its argument is still the current one
C6_Witness ==
    /\ op.fn = "push"
    /\ Returned
    /\ Len(deque) > Len(pre.deque)
    /\ current_trigger.name \in TriggerNames
    /\ current_trigger.args = <<"1">>
    /\ variant = "int"
    /\ get_trigger(variant, current_trigger) = "T(1)"

\* ----------------------------------------------------------------- C7 ----
\* C7: push(s) with s different from the current innermost state c does, in
\* this order: look up and run the `pause` ('push') hook of c, append s as
\* the new innermost level, look up and run the `begin` ('init') hook of s.
\* When the hooks make no engine calls the levels below are unchanged and
\* the depth has grown by exactly one.
C7_PushOrder ==
    ( /\ op.fn = "push"
      /\ Returned
      /\ pre.deque # <<>>
      /\ Back(pre.deque).name # op.arg.name )
    => LET own == Own(trace)
       IN  /\ Len(own) = 3
           /\ IsLookup(own[1], Back(pre.deque), HookPush(variant))
           /\ own[1].stack = pre.deque
           /\ IsEdit(own[2], "push_back", op.arg)
           /\ Back(own[2].stack) = op.arg
           /\ IsLookup(own[3], op.arg, HookInit(variant))
           /\ own[3].stack = own[2].stack
           /\ Nested(trace) = <<>>
              => /\ own[2].stack = Append(pre.deque, op.arg)
                 /\ deque = Append(pre.deque, op.arg)
                 /\ Len(deque) = Len(pre.deque) + 1

\* a push that ran the pause handler of the old level and the begin handler
\* of the new one
C7_Witness ==
    /\ op.fn = "push"
    /\ Returned
    /\ Len(trace) = 3
    /\ trace[1].ev = "call" /\ trace[1].to.name = HookPush(variant)
    /\ trace[2].ev = "push_back"
    /\ trace[3].ev = "call" /\ trace[3].to.name = HookInit(variant)
    /\ Len(pre.deque) >= 2
    /\ deque = Append(pre.deque, op.arg)

\* ----------------------------------------------------------------- C8 ----
\* C8: push(s) on a non-empty stack whose innermost state has the name of s,
\* whatever arguments s carries, changes neither the depth nor the content of
\* the stack, invokes no handler and appends nothing to the log.
C8_SelfPushNoOp ==
    ( /\ op.fn = "push"
      /\ pre.deque # <<>>
      /\ Back(pre.deque).name = op.arg.name )
    => /\ deque = pre.deque
       /\ trace = <<>>
       /\ log = pre.log
       /\ ret \in {"pending", "void"}
       /\ Len(frames) <= 1

\* a self-push that returned: the pushed state carries arguments the current
\* one does not, and the current state has a pause handler registered
C8_Witness ==
    /\ op.fn = "push"
    /\ Returned
    /\ pre.deque # <<>>
    /\ Back(pre.deque).name = op.arg.name
    /\ Back(pre.deque).args # op.arg.args
    /\ <<op.arg.name, HookPush(variant)>> \in DOMAIN callbacks
    /\ <<op.arg.name, HookInit(variant)>> \in DOMAIN callbacks

\* ----------------------------------------------------------------- C9 ----
\* C9: pop() on a non-empty stack looks up and runs the `end` ('quit') hook
\* of the innermost state while it is still on the stack, then removes it,
\* and then, only if a level remains, looks up and runs the `resume` ('back')
\* hook of the newly exposed innermost state; pop itself removes exactly one
\* level.
C9_PopOrder ==
    ( /\ op.fn = "pop"
      /\ Returned
      /\ pre.deque # <<>> )
    => LET own == Own(trace)
       IN  /\ Len(own) >= 2
           /\ IsLookup(own[1], Back(pre.deque), HookQuit(variant))
           /\ own[1].stack = pre.deque
           /\ own[2].ev = "pop_back"
           /\ IF own[2].stack = <<>>
              THEN Len(own) = 2
              ELSE /\ Len(own) = 3
                   /\ IsLookup(own[3], Back(own[2].stack), HookBack(variant))
                   /\ own[3].stack = own[2].stack
           /\ Nested(trace) = <<>>
              => /\ own[2].from = Back(pre.deque)
                 /\ own[2].stack = SubSeq(pre.deque, 1, Len(pre.deque) - 1)
                 /\ deque = own[2].stack

\* a pop that ran the end handler of the removed level and the resume
\* handler of the exposed one
C9_Witness ==
    /\ op.fn = "pop"
    /\ Returned
    /\ Len(trace) = 3
    /\ trace[1].ev = "call" /\ trace[1].to.name = HookQuit(variant)
    /\ trace[2].ev = "pop_back"
    /\ trace[3].ev = "call" /\ trace[3].to.name = HookBack(variant)
    /\ Len(deque) = Len(pre.deque) - 1

\* a pop of the only level: no resume hook is looked up
C9_WitnessLast ==
    /\ op.fn = "pop"
    /\ Returned
    /\ Len(pre.deque) = 1
    /\ Len(trace) = 2
    /\ deque = <<>>

\* ---------------------------------------------------------------- C10 ----
\* C10: set(s) on a non-empty stack looks up and runs the `end` ('quit')
\* hook of the current innermost state, overwrites the last stack slot with
\* s, then looks up and runs the `begin` ('init') hook of s; the depth and
\* the lower levels are unchanged.  The same happens when s is the current
\* state, where a push does nothing.
C10_SetOrder ==
    ( /\ op.fn = "set"
      /\ Returned
      /\ pre.deque # <<>> )
    => LET own == Own(trace)
           n   == Len(pre.deque)
       IN  /\ Len(own) = 3
           /\ IsLookup(own[1], pre.deque[n], HookQuit(variant))
           /\ own[1].stack = pre.deque
           /\ IsEdit(own[2], "assign", op.arg)
           /\ IsLookup(own[3], op.arg, HookInit(variant))
           /\ own[3].stack = own[2].stack
           /\ Nested(trace) = <<>>
              => /\ own[2].stack = [pre.deque EXCEPT ![n] = op.arg]
                 /\ deque = [pre.deque EXCEPT ![n] = op.arg]

\* a self-replace on a nested level that ran the end handler and then the
\* begin handler of the state
C10_Witness ==
    /\ op.fn = "set"
    /\ Returned
    /\ Len(pre.deque) >= 2
    /\ Back(pre.deque).name = op.arg.name
    /\ Len(trace) = 3
    /\ trace[1].ev = "call" /\ trace[1].to.name = HookQuit(variant)
    /\ trace[2].ev = "assign"
    /\ trace[3].ev = "call" /\ trace[3].to.name = HookInit(variant)
    /\ deque = pre.deque

\* ---------------------------------------------------------------- C11 ----
\* A host that makes a push/pop round trip.  Its handlers make no engine
\* call; any set of lifecycle hooks may have one.  It first builds a stack
\* by pushes (status "setup"), then pushes some states, each different from
\* the then-current one, and then pops as many times.  pre and trace are
\* taken at the first push of the round trip and kept to its end.
PlainHookTables ==
    UNION { [K -> {<<>>}] : K \in SUBSET (StateNames \X HookNames(variant)) }

Evs(tr, ev) == SelectSeq(tr, LAMBDA e : e.ev = ev)
Lookups(tr, n) ==
    SelectSeq(tr, LAMBDA e : e.ev \in {"call", "miss"} /\ e.to.name = n)
Froms(tr) == [i \in DOMAIN tr |-> tr[i].from]
Reverse(sq) == [i \in DOMAIN sq |-> sq[Len(sq) + 1 - i]]

RoundTripInit ==
    /\ variant \in {"int", "str"}
    /\ host = NoHost
    /\ states = <<>>
    /\ triggers = <<>>
    /\ callbacks \in PlainHookTables
    /\ \E n \in StateNames : deque = <<state(n, <<>>)>>
    /\ log = <<>>
    /\ current_trigger = DefaultState(variant)
    /\ frames = <<>>
    /\ status = "setup"
    /\ ub = FALSE
    /\ op = EngineCall("stack", deque[1])
    /\ pre = [deque |-> <<>>, log |-> <<>>, current_trigger |-> DefaultState(variant)]
    /\ trace = <<>>
    /\ ret = "void"

\* fsm.push(s) while the host builds the stack the round trip starts from
RoundTripBuild ==
    /\ Idle
    /\ status = "setup"
    /\ Len(deque) < MaxDepth
    /\ \E n \in StateNames :
          /\ n # Back(deque).name
          /\ frames' = <<Frame("push", state(n, <<>>))>>
          /\ op' = EngineCall("push", state(n, <<>>))
    /\ ret' = "pending"
    /\ UNCHANGED <<host, states, triggers, variant, callbacks, deque, log, current_trigger, status, ub,
                   pre, trace>>

\* fsm.push(s) of the round trip, s different from the current state
RoundTripPush ==
    /\ Idle
    /\ deque # <<>>
    /\ status = "alive" => /\ Evs(trace, "pop_back") = <<>>
                           /\ Len(Evs(trace, "push_back")) < MaxTrip
    /\ \E n \in StateNames :
          /\ n # Back(deque).name
          /\ frames' = <<Frame("push", state(n, <<>>))>>
          /\ op' = EngineCall("push", state(n, <<>>))
    /\ status' = "alive"
    /\ pre' = IF status = "setup" THEN Snapshot ELSE pre
    /\ trace' = IF status = "setup" THEN <<>> ELSE trace
    /\ ret' = "pending"
    /\ UNCHANGED <<host, states, triggers, variant, callbacks, deque, log, current_trigger, ub>>

\* fsm.pop() of the round trip, while fewer pops than pushes were made
RoundTripPop ==
    /\ Idle
    /\ status = "alive"
    /\ Len(Evs(trace, "pop_back")) < Len(Evs(trace, "push_back"))
    /\ frames' = <<Frame("pop", NullState)>>
    /\ op' = EngineCall("pop", NullState)
    /\ ret' = "pending"
    /\ UNCHANGED <<host, states, triggers, variant, callbacks, deque, log, current_trigger, status, ub,
                   pre, trace>>

RoundTripNext ==
    \/ RoundTripBuild
    \/ RoundTripPush
    \/ RoundTripPop
    \/ PushStart
    \/ PushResume
    \/ PopStart
    \/ PopResume
    \/ HandlerStep
    \/ Finish

SpecRoundTrip == RoundTripInit /\ [][RoundTripNext]_vars

\* The round trip is complete: as many pops as pushes have returned.
RoundTripDone ==
    /\ status = "alive"
    /\ frames = <<>>
    /\ Evs(trace, "push_back") # <<>>
    /\ Len(Evs(trace, "pop_back")) = Len(Evs(trace, "push_back"))

\* C11: after pushes of states each different from the then-current state,
\* followed by the same number of pops, with handlers that make no engine
\* call, the stack has its prior depth and content; the `begin` ('init')
\* hook was looked up once per pushed level in the order of the pushes and
\* the `end` ('quit') hook once per pushed level in the reverse order, each
\* running its handler where one is registered.
C11_PushPopRoundTrip ==
    RoundTripDone
    => LET pushed == Froms(Evs(trace, "push_back"))
           begins == Lookups(trace, HookInit(variant))
           ends   == Lookups(trace, HookQuit(variant))
       IN  /\ deque = pre.deque
           /\ ret = "void"
           /\ ~ub
           /\ Froms(begins) = pushed
           /\ Froms(ends) = Reverse(pushed)
           /\ Froms(Evs(trace, "pop_back")) = Reverse(pushed)
           /\ \A i \in DOMAIN begins : IsLookup(begins[i], begins[i].from, HookInit(variant))
           /\ \A i \in DOMAIN ends : IsLookup(ends[i], ends[i].from, HookQuit(variant))
           /\ Len(log) = Len(pre.log) + Len(Evs(trace, "call"))

\* a round trip of two pushes and two pops on a nested stack, the begin and
\* the end handlers of both pushed states registered and run
C11_Witness ==
    /\ RoundTripDone
    /\ Len(pre.deque) = 2
    /\ Len(Evs(trace, "push_back")) = 2
    /\ \A n \in StateNames :
          /\ <<n, HookInit(variant)>> \in DOMAIN callbacks
          /\ <<n, HookQuit(variant)>> \in DOMAIN callbacks
    /\ Len(SelectSeq(trace, LAMBDA e : e.ev = "call" /\ e.to.name = HookQuit(variant))) = 2
    /\ deque = pre.deque

\* ---------------------------------------------------------------- C12 ----
\* C12: pop() on an empty stack changes nothing and invokes no handler;
\* command(T) on an empty stack returns false without invoking a handler
\* and without changing the stack, the current trigger or the log.  Neither
\* stops the program.
C12_EmptyStackOps ==
    ( /\ op.fn \in {"pop", "command"}
      /\ pre.deque = <<>> )
    => /\ deque = <<>>
       /\ trace = <<>>
       /\ log = pre.log
       /\ current_trigger = pre.current_trigger
       /\ get_trigger(variant, current_trigger)
            = get_trigger(variant, pre.current_trigger)
       /\ status = "alive"
       /\ Len(frames) <= 1
       /\ ret \in {"pending", IF op.fn = "pop" THEN "void" ELSE "false"}

\* a command on the emptied stack of a machine that has handlers and whose
\* current trigger was set by an earlier command: it returned false
C12_Witness ==
    /\ op.fn = "command"
    /\ pre.deque = <<>>
    /\ Returned
    /\ ret = "false"
    /\ \E k \in DOMAIN callbacks : k[2] = op.arg.name
    /\ current_trigger.name \in TriggerNames

\* a pop on the emptied stack that returned
C12_WitnessPop ==
    /\ op.fn = "pop"
    /\ pre.deque = <<>>
    /\ Returned
    /\ callbacks # <<>>

\* ---------------------------------------------------------------- C13 ----
\* C13 (as claimed): whenever the machine is at rest between two public
\* calls, after construction and before destruction, the stack holds at
\* least one level and the current state, get_state(), is its last element.
C13_StackNonEmpty ==
    Idle
    => /\ deque # <<>>
       /\ get_state(variant, deque, -1) = Back(deque)

\* ---------------------------------------------------------------- C14 ----
\* C14 (as claimed): set(s) on an empty stack ends with the stack exactly
\* [s], having looked up (and run, if registered) the `begin` ('init') hook
\* of s and no `pause` or `end` hook, and having read no element of the
\* empty stack.
C14_SetOnEmptyStack ==
    ( /\ op.fn = "set"
      /\ pre.deque = <<>>
      /\ Ended )
    => /\ ret = "void"
       /\ ~ub
       /\ deque = <<op.arg>>
       /\ Len(Lookups(trace, HookInit(variant))) = 1
       /\ Lookups(trace, HookPush(variant)) = <<>>
       /\ Lookups(trace, HookQuit(variant)) = <<>>

\* ---------------------------------------------------------------- C15 ----
\* C15 (as claimed): construction with initial state s runs the host's
\* `begin` ('init') handler for s: a host that has such a handler has seen
\* it run by the time its first operation on the machine starts.
C15_BeginHandlerRuns ==
    ( /\ op.fn = "stack"
      /\ <<op.arg.name, HookInit(variant)>> \in DOMAIN callbacks )
    => \E i \in DOMAIN trace :
          /\ trace[i].ev = "call"
          /\ trace[i].from = op.arg
          /\ trace[i].to.name = HookInit(variant)

\* C15 (amended): construction with initial state s leaves the stack exactly
\* [s] and looks the `begin` ('init') hook of s up, but no handler runs and
\* nothing is logged: the handler table is empty while the constructor
\* runs, a handler can be registered on the constructed machine only.
C15_ConstructionRunsNoHandler ==
    op.fn = "stack"
    => /\ deque = <<op.arg>>
       /\ get_state(variant, deque, -1) = op.arg
       /\ log = <<>>
       /\ Len(trace) = 1
       /\ trace[1].ev = "miss"
       /\ trace[1].from = op.arg
       /\ trace[1].to.name = HookInit(variant)
       /\ current_trigger = DefaultState(variant)

\* the host has registered a begin handler for the initial state of the
\* constructed machine and has made no call on it yet
C15_Witness ==
    /\ op.fn = "stack"
    /\ Idle
    /\ <<op.arg.name, HookInit(variant)>> \in DOMAIN callbacks
    /\ deque = <<op.arg>>

\* ---------------------------------------------------------------- C16 ----
\* C16: destroying a machine whose stack is [s0..sn-1] pops every level:
\* the `end` ('quit') hook is looked up exactly once for each level, in the
\* order sn-1, ..., s0, its handler running where one is registered, and
\* the destructor ends with the stack empty.
C16_Teardown ==
    ( /\ op.fn = "~stack"
      /\ status = "dead" )
    => LET ends == Lookups(trace, HookQuit(variant))
       IN  /\ deque = <<>>
           /\ frames = <<>>
           /\ Froms(ends) = Reverse(pre.deque)
           /\ Froms(Evs(trace, "pop_back")) = Reverse(pre.deque)
           /\ \A i \in DOMAIN ends :
                 /\ IsLookup(ends[i], ends[i].from, HookQuit(variant))
                 /\ Back(ends[i].stack) = ends[i].from
                 /\ Len(ends[i].stack) = Len(pre.deque) + 1 - i

\* the teardown of a three-level stack that ran the end handlers of the
\* levels that have one
C16_Witness ==
    /\ op.fn = "~stack"
    /\ status = "dead"
    /\ Len(pre.deque) = 3
    /\ Len(SelectSeq(trace, LAMBDA e : e.ev = "call" /\ e.to.name = HookQuit(variant))) >= 2
    /\ deque = <<>>

\* ---------------------------------------------------------------- C17 ----
\* call() is a public member: a host may invoke any pair itself.
\*   bool call( from, to ) { found = callbacks.find( bistate(from,to) );
\*       if( found != end ) { log...; found->second( to.args ); return true; }
\*       return false; }
CallStart ==
    /\ At("call", "start")
    /\ LET from == Top.arg[1]
           to   == Top.arg[2]
       IN  IF Found(from, to)
           THEN /\ CallFound(from, to, current_trigger, trace, deque, Below,
                             [Goto("ret") EXCEPT !.val = "true"])
                /\ UNCHANGED ret
           ELSE /\ trace' = Missed(trace, from, to, deque)
                /\ log' = log
                /\ ReturnTo(Below, "false")
    /\ UNCHANGED <<host, states, triggers, variant, callbacks, deque, current_trigger, status, ub, op, pre>>

\* fsm.call( from, to ) by the host
HostCallCall ==
    \E n \in StateNames, t \in TriggerNames \cup HookNames(variant), a \in ArgLists :
        HostCall("call", <<state(n, <<>>), state(t, a)>>)

CallNext ==
    \/ HostOn
    \/ HostCallCall
    \/ CallStart
    \/ HandlerStep
    \/ PushStart
    \/ PushResume
    \/ PopStart
    \/ PopResume
    \/ SetStart
    \/ ReplaceResume
    \/ Finish

SpecCall == Init /\ [][CallNext]_vars

\* C17: call(state, trigger) with no handler registered for the pair
\* returns false and leaves log, stack and current trigger untouched; with
\* one registered it runs that handler exactly once, appends exactly one
\* history record for the invocation, and returns true.
C17_CallContract ==
    ( /\ op.fn = "call"
      /\ ret # "pending" \/ trace # <<>> )
    => LET from == op.arg[1]
           to   == op.arg[2]
           own  == Own(trace)
           n    == Len(pre.log)
       IN  IF <<from.name, to.name>> \in DOMAIN callbacks
           THEN /\ Len(own) = 1
                /\ own[1] = [ev |-> "call", from |-> from, to |-> to,
                             stack |-> pre.deque, by |-> 1]
                /\ trace[1] = own[1]
                /\ Len(log) > n
                /\ log[n + 1] = [previous |-> from,
                                 trigger |-> pre.current_trigger,
                                 current |-> to]
                /\ SubSeq(log, 1, n) = pre.log
                /\ Len(log) = n + Len(Evs(trace, "call"))
                /\ Returned => ret = "true"
                /\ Nested(trace) = <<>> => (Len(log) = n + 1 /\ deque = pre.deque)
           ELSE /\ trace = << [ev |-> "miss", from |-> from, to |-> to,
                               stack |-> pre.deque, by |-> 1] >>
                /\ ret = "false"
                /\ log = pre.log
                /\ deque = pre.deque
                /\ current_trigger = pre.current_trigger
                /\ frames = <<>>

\* a call of a registered pair, with an argument, that returned true after
\* its handler ran and one record was appended to a log that held one
C17_Witness ==
    /\ op.fn = "call"
    /\ Returned
    /\ ret = "true"
    /\ op.arg[2].args = <<"1">>
    /\ Len(pre.log) = 1
    /\ Len(log) = 2
    /\ log[2].current = op.arg[2]

\* a call of a pair without a handler, on a machine that has handlers
C17_WitnessAbsent ==
    /\ op.fn = "call"
    /\ Returned
    /\ ret = "false"
    /\ callbacks # <<>>
    /\ log # <<>>

\* ---------------------------------------------------------------- C18 ----
\* fsm.on(from, to); with nothing assigned to the reference it returns:
\* callbacks[ bistate(from,to) ] default-constructs the entry if there is none
HostOnOnly ==
    /\ Idle
    /\ status = "setup"
    /\ \E k \in Keys :
          /\ k \notin DOMAIN callbacks
          /\ Cardinality(DOMAIN callbacks) < MaxHandlers
          /\ callbacks' = (k :> Unassigned) @@ callbacks
    /\ UNCHANGED <<host, states, triggers, variant, deque, log, current_trigger, frames, status, ub,
                   op, pre, trace, ret>>

OnNext ==
    \/ HostOnOnly
    \/ Next

SpecOn == Init /\ [][OnNext]_vars

\* C18 (as claimed): after on(s,t) without an assignment the entry is bound
\* to a no-op: a command(t) that reaches that entry completes normally as
\* handled, returning true with no error raised.
C18_UnassignedIsNoOp ==
    ( /\ op.fn = "command"
      /\ frames = <<>>
      /\ ret # "pending"
      /\ Accepting(pre.deque, op.arg) # {}
      /\ callbacks[<<pre.deque[Max(Accepting(pre.deque, op.arg))].name, op.arg.name>>]
            = Unassigned )
    => /\ ret = "true"
       /\ status = "alive"

\* ---------------------------------------------------------------- C19 ----
\* C19: handler lookup and state comparison use the identity (name) of a
\* symbol only.  command(T(a)) selects, whatever the argument list a, the
\* handler registered for (state, T) at the innermost level that has one,
\* and that handler receives exactly the argument list a; two symbols of
\* the same name with different arguments compare equal.
C19_IdentityOnly ==
    /\ \A n \in StateNames, a \in ArgLists, b \in ArgLists :
          SameState(state(n, a), state(n, b))
    /\ op.fn = "command"
       => LET named == {p \in 1..Len(pre.deque) :
                           <<pre.deque[p].name, op.arg.name>> \in DOMAIN callbacks}
          IN  /\ (named # {} /\ Ended) => ret # "false"
              /\ (named = {} /\ Ended) => ret = "false"
              /\ ( /\ Len(frames) >= 2
                   /\ frames[1].pc = "cancel"
                   /\ frames[2].fn = "handler" )
                 => LET k == CHOOSE x \in named : \A y \in named : y <= x
                    IN  /\ named # {}
                        /\ frames[2].body = callbacks[<<pre.deque[k].name, op.arg.name>>]
                        /\ frames[2].arg.args = op.arg.args
                        /\ \E i \in DOMAIN trace :
                              /\ trace[i].ev = "call"
                              /\ trace[i].by = 1
                              /\ trace[i].from = pre.deque[k]
                              /\ trace[i].to = op.arg

\* the handler of an outer level runs for a trigger dispatched with an
\* argument and holds that argument
C19_Witness ==
    /\ op.fn = "command"
    /\ op.arg.args = <<"1">>
    /\ Len(frames) = 2
    /\ frames[1].pc = "cancel"
    /\ frames[2].fn = "handler"
    /\ frames[2].arg.args = <<"1">>
    /\ Len(pre.deque) >= 2
    /\ frames[1].it < Len(pre.deque)

\* ---------------------------------------------------------------- C20 ----
\* A host that fills the log: every state has a handler for the trigger
\* that makes no engine call, and the host dispatches the trigger again and
\* again, each dispatch running one handler and so appending one record.
\* trace is kept over the dispatches: its "call" events are the records
\* appended so far.  The argument of a dispatch is free for the first and
\* for the last ones and follows a pattern of period three in between.
LogArgs(count) ==
    IF count < 2 \/ count >= LogCap - 2
    THEN ArgLists
    ELSE {IF count % 3 = 0 THEN <<"1">> ELSE <<>>}

LogInit ==
    /\ variant \in {"int", "str"}
    /\ host = NoHost
    /\ states = <<>>
    /\ triggers = <<>>
    /\ callbacks = [k \in StateNames \X TriggerNames |-> <<>>]
    /\ \E n \in StateNames : deque = <<state(n, <<>>)>>
    /\ log = <<>>
    /\ current_trigger = DefaultState(variant)
    /\ frames = <<>>
    /\ status = "alive"
    /\ ub = FALSE
    /\ op = EngineCall("stack", deque[1])
    /\ pre = [deque |-> <<>>, log |-> <<>>, current_trigger |-> DefaultState(variant)]
    /\ trace = <<>>
    /\ ret = "void"

LogCommand ==
    /\ Idle
    /\ Len(Evs(trace, "call")) < LogCap + MaxExtra
    /\ \E n \in TriggerNames, a \in LogArgs(Len(Evs(trace, "call"))) :
          /\ frames' = <<Frame("command", state(n, a))>>
          /\ op' = EngineCall("command", state(n, a))
    /\ pre' = Snapshot
    /\ ret' = "pending"
    /\ UNCHANGED <<host, states, triggers, variant, callbacks, deque, log, current_trigger, status, ub,
                   trace>>

LogNext ==
    \/ LogCommand
    \/ CommandStart
    \/ CommandWalk
    \/ HandlerStep
    \/ CommandReturn

SpecLog == LogInit /\ [][LogNext]_vars

\* the record call() writes for the handler run e; the current trigger is
\* the default symbol while command walks the stack
RecordOf(e) ==
    [previous |-> e.from, trigger |-> DefaultState(variant), current |-> e.to]

\* C20: the log never holds more than N = 50 records; after M appended
\* records it holds the min(M, N) most recent ones, oldest first, and
\* get_log(-1) is the record appended last.
C20_HistoryBound ==
    LET calls == Evs(trace, "call")
        M     == Len(calls)
        n     == Len(log)
    IN  /\ n <= LogCap
        /\ n = IF M > LogCap THEN LogCap ELSE M
        /\ \A i \in 1..n : log[i] = RecordOf(calls[M - n + i])
        /\ M > 0 => get_log(variant, log, -1) = RecordOf(calls[M])

\* five records more than the capacity have been appended, with different
\* arguments among the last ones
C20_Witness ==
    /\ Idle
    /\ Len(Evs(trace, "call")) = LogCap + MaxExtra
    /\ Len(log) = LogCap
    /\ log[LogCap] # log[LogCap - 1]
    /\ log[1] # log[2]


\* ---------------------------------------------------------------- C21 ----
\* A host that reads the stack and the log by position.  Every state has a
\* handler for the trigger that makes no engine call, so each dispatch
\* appends one record; the host pushes, pops, dispatches and reads.
IntMin == (0 - IntMax) - 1
Positions == ((0 - MaxPos)..MaxPos) \cup {IntMin, IntMin + 1, IntMax - 1, IntMax}

IndexInit ==
    /\ variant \in {"int", "str"}
    /\ host = NoHost
    /\ states = <<>>
    /\ triggers = <<>>
    /\ callbacks = [k \in StateNames \X TriggerNames |-> <<>>]
    /\ \E n \in StateNames : deque = <<state(n, <<>>)>>
    /\ log = <<>>
    /\ current_trigger = DefaultState(variant)
    /\ frames = <<>>
    /\ status = "alive"
    /\ ub = FALSE
    /\ op = EngineCall("stack", deque[1])
    /\ pre = [deque |-> <<>>, log |-> <<>>, current_trigger |-> DefaultState(variant)]
    /\ trace = <<>>
    /\ ret = "void"

\* fsm.get_state( pos ) by the host; ret holds the state returned
HostGetState ==
    /\ Idle
    /\ \E pos \in Positions :
          /\ op' = EngineCall("get_state", pos)
          /\ ret' = get_state(variant, deque, pos)
    /\ pre' = Snapshot
    /\ trace' = <<>>
    /\ UNCHANGED <<host, states, triggers, variant, callbacks, deque, log, current_trigger, frames,
                   status, ub>>

\* fsm.get_log( pos ) by the host; ret holds the record returned
HostGetLog ==
    /\ Idle
    /\ \E pos \in Positions :
          /\ op' = EngineCall("get_log", pos)
          /\ ret' = get_log(variant, log, pos)
    /\ pre' = Snapshot
    /\ trace' = <<>>
    /\ UNCHANGED <<host, states, triggers, variant, callbacks, deque, log, current_trigger, frames,
                   status, ub>>

IndexNext ==
    \/ HostPush
    \/ HostPop
    \/ HostCommand
    \/ HostGetState
    \/ HostGetLog
    \/ PushStart
    \/ PopStart
    \/ CommandStart
    \/ CommandWalk
    \/ HandlerStep
    \/ CommandReturn

SpecIndex == IndexInit /\ [][IndexNext]_vars

\* C21: on a non-empty stack (log) of length len, get_state(i) (get_log(i))
\* returns, for every int i, the element at position i mod len, the modulo
\* taken in [0, len): -1 is the newest element, len wraps to the first, and
\* the position computed is never out of range.  On an empty stack or log
\* the default state or record is returned.  Reading changes nothing.
C21_ExtendedIndexing ==
    /\ op.fn = "get_state"
       => /\ deque = pre.deque
          /\ IF deque = <<>>
             THEN ret = DefaultState(variant)
             ELSE /\ ExtIndex(op.arg, Len(deque)) \in 0..(Len(deque) - 1)
                  /\ ret = deque[1 + (op.arg % Len(deque))]
                  /\ op.arg = -1 => ret = Back(deque)
    /\ op.fn = "get_log"
       => /\ log = pre.log
          /\ IF log = <<>>
             THEN ret = [previous |-> DefaultState(variant),
                         trigger  |-> DefaultState(variant),
                         current  |-> DefaultState(variant)]
             ELSE /\ ExtIndex(op.arg, Len(log)) \in 0..(Len(log) - 1)
                  /\ ret = log[1 + (op.arg % Len(log))]
                  /\ op.arg = -1 => ret = log[Len(log)]

\* a negative position beyond the length read on a stack of three levels
\* that are not all the same, and the state returned is not the innermost
C21_Witness ==
    /\ op.fn = "get_state"
    /\ Len(deque) = 3
    /\ deque[1] # deque[2]
    /\ op.arg < 0 - Len(deque)
    /\ ret # Back(deque)

\* a position beyond the length read on a log of two different records
C21_WitnessLog ==
    /\ op.fn = "get_log"
    /\ Len(log) = 2
    /\ log[1] # log[2]
    /\ op.arg > Len(log)
    /\ ret = log[1]

\* the smallest int read on an empty stack
C21_WitnessEmpty ==
    /\ op.fn = "get_state"
    /\ deque = <<>>
    /\ op.arg = IntMin


\* ---------------------------------------------------------------- C22 ----
\* C22 (as claimed): a history record is the triple (state before the
\* transition, trigger that caused the record, state resulting from the
\* transition).  For the record appended while command(T) is handled by the
\* innermost state s, whose handler leaves the machine in state s', the
\* record is (s, T, s').
C22_RecordTriple ==
    ( /\ op.fn = "command"
      /\ Returned
      /\ ret = "true"
      /\ Found(Back(pre.deque), op.arg)
      /\ deque # <<>> )
    => LET r == log[Len(pre.log) + 1]
       IN  /\ r.previous = Back(pre.deque)
           /\ r.trigger = op.arg
           /\ r.current = Back(deque)


\* ---------------------------------------------------------------- C23 ----
\* C23 (as claimed): when the handler that accepts the trigger at an
\* ancestor level calls push, pop or set on the machine before it returns,
\* the rest of command removes only levels that were offered the trigger
\* and declined it, and reads or erases no stack position that the
\* handler's call removed, shifted or replaced: no undefined behaviour is
\* executed and the program does not stop.  Stated for one declined level,
\* where the cancel loop by itself uses no invalidated iterator.
C23_ReentrancyTolerated ==
    ( /\ op.fn = "command"
      /\ Accepting(pre.deque, op.arg) # {}
      /\ Max(Accepting(pre.deque, op.arg)) = Len(pre.deque) - 1
      /\ Nested(trace) # <<>> )
    => LET own    == Own(trace)
           erased == Evs(own, "erase")
           quits  == Lookups(own, HookQuit(variant))
       IN  /\ ~ub
           /\ status # "crashed"
           /\ Len(erased) <= 1
           /\ \A i \in DOMAIN erased : erased[i].from = Back(pre.deque)
           /\ \A i \in DOMAIN quits : quits[i].from = Back(pre.deque)


\* ---------------------------------------------------------------- C24 ----
\* The handler run trace[j] happens inside the handler run trace[i]: the
\* engine function that started run i has done nothing since.
Inside(tr, i, j) ==
    /\ i < j
    /\ tr[i].ev = "call"
    /\ tr[j].ev = "call"
    /\ \A k \in (i + 1)..j : tr[k].by > tr[i].by

\* A handler is entered again, for the same state and trigger and with the
\* same stack, while it is still running.  The engine calls of a handler
\* and what the engine does with a given stack and handler table are fixed,
\* so the inner run repeats what the outer one did and is entered again in
\* its turn: the recursion has no end but the exhaustion of the C++ stack.
Recurs(tr) ==
    \E i, j \in DOMAIN tr :
        /\ Inside(tr, i, j)
        /\ tr[j].from = tr[i].from
        /\ tr[j].to = tr[i].to
        /\ tr[j].stack = tr[i].stack

\* C24 (as claimed): every push, pop, set and command runs to completion
\* and returns, whatever finite sequences of engine calls the handlers are,
\* lifecycle handlers that re-enter the engine included.  An operation that
\* returns never re-enters a running handler in the state it was started
\* in.
C24_RunsToCompletion ==
    op.fn \in {"push", "pop", "set", "command"} => ~Recurs(trace)


\* ---------------------------------------------------------------- C29 ----
\* The handler of the accepting level is running and has made no engine
\* call yet: command waits in call(), before its cancel loop.
InAcceptingHandler ==
    /\ op.fn = "command"
    /\ Len(frames) = 2
    /\ frames[1].fn = "command"
    /\ frames[1].pc = "cancel"
    /\ frames[1].j = 1
    /\ frames[2].fn = "handler"
    /\ Nested(trace) = <<>>

\* C29: during a successful command in which inner levels declined, the
\* handler of the accepting level runs while every declined level is still
\* on the stack: in the handler get_state() is the innermost declined
\* state, not the accepting one.  The declined levels are removed only
\* after the handler has returned, and the current trigger is set only
\* after that; until then it is the default symbol.
C29_HandlerSeesDeclinedLevels ==
    /\ InAcceptingHandler
       => /\ deque = pre.deque
          /\ Evs(trace, "erase") = <<>>
          /\ get_state(variant, deque, -1) = Back(pre.deque)
          /\ current_trigger = DefaultState(variant)
          /\ frames[1].it = Max(Accepting(pre.deque, op.arg))
          /\ Len(frames[1].aborted) = Len(pre.deque) - frames[1].it
          /\ frames[1].it < Len(pre.deque)
             => ~SameState(get_state(variant, deque, -1), pre.deque[frames[1].it])
    /\ (op.fn = "command" /\ pre.deque # <<>>)
       => LET own == Own(trace)
          IN  /\ \A i \in DOMAIN own :
                    own[i].ev = "erase"
                    => /\ \E k \in 1..(i - 1) :
                             own[k].ev = "call" /\ own[k].to = op.arg
                       /\ current_trigger = DefaultState(variant)
                          \/ (frames = <<>> /\ ret = "true")
              /\ (frames # <<>> /\ frames[1].pc # "start")
                 => current_trigger = DefaultState(variant)
              /\ (frames # <<>> /\ frames[1].pc \in {"start", "walk"})
                 => Evs(trace, "erase") = <<>>

\* the handler of the root is running for a trigger that two inner levels
\* declined, both still on the stack
C29_Witness ==
    /\ InAcceptingHandler
    /\ Len(pre.deque) = 3
    /\ frames[1].it = 1
    /\ deque = pre.deque
    /\ Back(deque).name # deque[1].name

\* the declined level has been removed after the handler returned, and the
\* command has returned true
C29_WitnessAfter ==
    /\ op.fn = "command"
    /\ Returned
    /\ ret = "true"
    /\ Len(Evs(Own(trace), "erase")) = 1
    /\ Len(deque) = Len(pre.deque) - 1
    /\ current_trigger = op.arg


\* ---------------------------------------------------------------- C30 ----
\* C30: command looks no `resume` ('back'), `begin` ('init') or `pause`
\* ('push') hook up: when declined inner levels have been removed, no hook
\* of the accepting level, now the innermost, is looked up or run; the
\* removal of the last declined level is the last thing command does
\* before it records the trigger and returns.  pop() looks the `resume`
\* hook of the level it exposes up.
C30_CollapseFiresNoResume ==
    /\ op.fn = "command"
       => LET own == Own(trace)
          IN  /\ \A i \in DOMAIN own :
                    own[i].ev \in {"call", "miss"}
                    => own[i].to.name \notin
                         {HookBack(variant), HookInit(variant), HookPush(variant)}
              /\ (Returned /\ Evs(own, "erase") # <<>>)
                 => own[Len(own)].ev = "erase"
              /\ (Returned /\ Nested(trace) = <<>>)
                 => Len(log) = Len(pre.log) + Len(Evs(own, "call"))
    /\ (op.fn = "pop" /\ Returned /\ Len(pre.deque) >= 2 /\ Nested(trace) = <<>>)
       => LET own == Own(trace)
          IN  IsLookup(own[Len(own)], pre.deque[Len(pre.deque) - 1], HookBack(variant))

\* a command that removed a declined level and returned, on a machine
\* whose accepting state has a resume handler and a begin handler
C30_Witness ==
    /\ op.fn = "command"
    /\ Returned
    /\ ret = "true"
    /\ Nested(trace) = <<>>
    /\ Evs(trace, "erase") # <<>>
    /\ deque # <<>>
    /\ <<Back(deque).name, HookBack(variant)>> \in DOMAIN callbacks
    /\ <<Back(deque).name, op.arg.name>> \in DOMAIN callbacks


\* ---------------------------------------------------------------- C27 ----
\* A flat host: the host and its handlers call set and command only, as the
\* CD player of the first sample does.  A handler of a trigger replaces the
\* state once or twice, dispatches again, or does nothing; a handler of a
\* lifecycle hook replaces the state or does nothing.
FlatBodies(trigger) ==
    IF trigger \in TriggerNames
    THEN { <<>>,
           << EngineCall("set", state("A", <<>>)) >>,
           << EngineCall("set", state("B", <<>>)) >>,
           << EngineCall("set", state("B", <<>>)),
              EngineCall("set", state("A", <<>>)) >>,
           << EngineCall("set", state("B", <<>>)),
              EngineCall("command", state("T", <<>>)) >> }
    ELSE { <<>>,
           << EngineCall("set", state("A", <<>>)) >> }

\* fsm.on(from, to) = handler, of a flat host
FlatOn ==
    /\ Idle
    /\ status = "setup"
    /\ \E k \in Keys : \E b \in FlatBodies(k[2]) :
          /\ k \in DOMAIN callbacks \/ Cardinality(DOMAIN callbacks) < MaxHandlers
          /\ callbacks' = (k :> b) @@ callbacks
    /\ UNCHANGED <<host, states, triggers, variant, deque, log, current_trigger, frames, status, ub,
                   op, pre, trace, ret>>

FlatNext ==
    \/ FlatOn
    \/ HostSet
    \/ HostCommand
    \/ SetStart
    \/ ReplaceResume
    \/ HandlerStep
    \/ CommandStart
    \/ CommandWalk
    \/ CommandReturn
    \/ Finish

SpecFlat == Init /\ [][FlatNext]_vars

\* C27: on a machine whose host and handlers use set and command only, the
\* stack has exactly one level in every reachable state; every command, the
\* host's or a handler's, is one lookup of the trigger at that level and
\* removes no level; and when a command has returned true the current state
\* is the state last passed to set in its course (the state before, if set
\* was not called).  No undefined behaviour is executed.
C27_FlatUsage ==
    /\ Len(deque) = 1
    /\ ~ub
    /\ status # "crashed"
    /\ \A i \in DOMAIN trace :
          /\ Len(trace[i].stack) = 1
          /\ trace[i].ev \in {"call", "miss", "assign"}
          /\ trace[i].to.name \in TriggerNames
             => trace[i].from = trace[i].stack[1]
    /\ op.fn = "command"
       => LET own == Own(trace)
              sets == Evs(trace, "assign")
          IN  /\ Len(own) <= 1
              /\ \A i \in DOMAIN own :
                    IsLookup(own[i], pre.deque[1], op.arg.name)
              /\ frames = <<>> => Len(own) = 1
              /\ (Returned /\ ret = "true")
                 => get_state(variant, deque, -1)
                      = IF sets = <<>> THEN pre.deque[1] ELSE sets[Len(sets)].from

\* a command has returned true whose handler replaced the state twice, the
\* state it ends in differing from the one it started in
C27_Witness ==
    /\ op.fn = "command"
    /\ Returned
    /\ ret = "true"
    /\ Len(Evs(trace, "assign")) = 2
    /\ deque # pre.deque
    /\ Len(deque) = 1


\* ================================================================= C25 ====
\* ----------------------------------------- ant_t (FSM_BUILD_SAMPLE2) ----
\* Handlers of a sample read and write the member variables of their host
\* between their engine calls.  A statement of such a handler is an engine
\* call or an assignment to a member, run when its condition holds.
Stmt(when, fn, arg) == [when |-> when, fn |-> fn, arg |-> arg]

Holds(when, h) ==
    CASE when = "always"     -> TRUE
      [] when = "health < 0" -> h.health < 0

HostExec(fn, h) ==
    CASE fn = "health = 1000" -> [h EXCEPT !.health = AntHealth]
      [] fn = "--health"      -> [h EXCEPT !.health = @ - 1]

EngineFns == {"push", "pop", "set", "command"}

\* found->second( to.args ) for a handler of a sample
SampleHandlerStep ==
    /\ At("handler", "start")
    /\ IF Top.i > Len(Top.body)
       THEN /\ ReturnTo(Below, "void")
            /\ UNCHANGED <<status, host>>
       ELSE LET st   == Top.body[Top.i]
                cont == [Top EXCEPT !.i = @ + 1]
            IN  IF ~Holds(st.when, host)
                THEN /\ frames' = Below \o <<cont>>
                     /\ UNCHANGED <<status, ret, host>>
                ELSE IF st.fn \in EngineFns
                THEN /\ Invoke(cont, st.fn, st.arg)
                     /\ UNCHANGED host
                ELSE /\ frames' = Below \o <<cont>>
                     /\ host' = HostExec(st.fn, host)
                     /\ UNCHANGED <<status, ret>>
    /\ UNCHANGED <<states, triggers, variant, callbacks, deque, log,
                   current_trigger, ub, op, pre, trace>>

walking   == state("walking", <<>>)
defending == state("defending", <<>>)
tick      == state("tick", <<>>)

\* The handlers ant_t() registers.  Those of walking print; the one of
\* (walking, tick) also moves `distance` by `flow`, two members that no
\* engine call depends on and that are left out.
AntTable ==
    [k \in {<<"walking", "init">>, <<"walking", "quit">>,
            <<"walking", "push">>, <<"walking", "back">>,
            <<"walking", "tick">>, <<"defending", "init">>,
            <<"defending", "tick">>} |->
        IF k = <<"defending", "init">>
        THEN << Stmt("always", "health = 1000", NullState) >>
        ELSE IF k = <<"defending", "tick">>
        THEN << Stmt("always", "--health", NullState),
                Stmt("health < 0", "pop", NullState) >>
        ELSE <<>>]

\* ant_t ant: health(0), the member fsm constructed with the default start
\* state and the handlers registered; the constructor is about to call
\* fsm.set( walking ).
AntInit ==
    /\ variant = "int"
    /\ host = [health |-> 0, pc |-> "ctor"]
    /\ states = <<>>
    /\ triggers = <<>>
    /\ callbacks = AntTable
    /\ deque = <<DefaultState("int")>>
    /\ log = <<>>
    /\ current_trigger = DefaultState("int")
    /\ frames = <<>>
    /\ status = "alive"
    /\ ub = FALSE
    /\ op = EngineCall("stack", DefaultState("int"))
    /\ pre = [deque |-> <<>>, log |-> <<>>,
              current_trigger |-> DefaultState("int"), host |-> host]
    /\ trace = <<>>
    /\ ret = "void"

\* The host calls fn(arg) and goes on at pc when the call has returned.
AntCall(fn, arg, pc) ==
    /\ Idle
    /\ frames' = <<Frame(fn, arg)>>
    /\ op' = EngineCall(fn, arg)
    /\ pre' = [deque |-> deque, log |-> log,
               current_trigger |-> current_trigger, host |-> host]
    /\ trace' = <<>>
    /\ ret' = "pending"
    /\ host' = [host EXCEPT !.pc = pc]
    /\ UNCHANGED <<states, triggers, variant, callbacks, deque, log,
                   current_trigger, status, ub>>

\* fsm.set( walking ), the last statement of ant_t()
AntSetWalking ==
    /\ host.pc = "ctor"
    /\ AntCall("set", walking, "roll")

\* main: if( 0 == rand() % 10000 ) ant.fsm.push(defending);
AntPushDefending ==
    /\ host.pc = "roll"
    /\ AntCall("push", defending, "tick")

\* main: ant.fsm.command(tick), after a push or after rand() gave another
\* value.  The loop's bound of 12000 rounds is left out: the rounds go on.
AntTick ==
    /\ host.pc \in {"roll", "tick"}
    /\ AntCall("command", tick, "roll")

\* The sample registers no handler for ('null', 'quit') nor for
\* (defending, 'quit'): replace and pop never resume after one.
AntNext ==
    \/ AntSetWalking
    \/ AntPushDefending
    \/ AntTick
    \/ SetStart
    \/ PushStart
    \/ PushResume
    \/ PopStart
    \/ CommandStart
    \/ CommandWalk
    \/ CommandReturn
    \/ SampleHandlerStep
    \/ Finish

SpecAnt == AntInit /\ [][AntNext]_vars

AntEvent(ev, from, to, dq, by) ==
    [ev |-> ev, from |-> from, to |-> to, stack |-> dq, by |-> by]

\* C25: in the ant sample, push(defending) on the stack [walking] runs the
\* `pause` ('push') handler of walking, appends defending and runs its
\* `begin` ('init') handler, which sets the counter to 1000.  From then on
\* every command(tick) is handled by defending at the innermost level and
\* takes one off the counter; between ticks the counter is in 0..1000, so
\* the tick that makes it negative comes after finitely many (it is the
\* 1001st).  In that tick the handler calls pop(): the `end` ('quit') hook
\* of defending is looked up with defending still on the stack (the sample
\* registers no handler for it), defending is removed, the `resume`
\* ('back') handler of walking runs, and the stack is [walking].  With the
\* stack [walking] a tick is handled by walking and changes neither the
\* stack nor the counter.
C25_AntScenario ==
    /\ (Idle /\ host.pc # "ctor")
       => /\ deque \in {<<walking>>, <<walking, defending>>}
          /\ deque = <<walking, defending>> => host.health \in 0..AntHealth
          /\ ~ub
          /\ status = "alive"
    /\ (op.fn = "push" /\ Returned /\ pre.deque = <<walking>>)
       => /\ trace = << AntEvent("call", walking, Hook("push"), <<walking>>, 1),
                        AntEvent("push_back", defending, NullState,
                                 <<walking, defending>>, 1),
                        AntEvent("call", defending, Hook("init"),
                                 <<walking, defending>>, 1) >>
          /\ deque = <<walking, defending>>
          /\ host.health = AntHealth
    /\ (op.fn = "command" /\ Returned /\ pre.deque = <<walking, defending>>)
       => /\ ret = "true"
          /\ trace[1] = AntEvent("call", defending, tick, pre.deque, 1)
          /\ host.health = pre.host.health - 1
          /\ IF host.health >= 0
             THEN /\ Len(trace) = 1
                  /\ deque = pre.deque
             ELSE /\ pre.host.health = 0
                  /\ SubSeq(trace, 2, Len(trace)) =
                       << AntEvent("miss", defending, Hook("quit"),
                                   <<walking, defending>>, 3),
                          AntEvent("pop_back", defending, NullState,
                                   <<walking>>, 3),
                          AntEvent("call", walking, Hook("back"),
                                   <<walking>>, 3) >>
                  /\ deque = <<walking>>
    /\ (op.fn = "command" /\ Returned /\ pre.deque = <<walking>>)
       => /\ ret = "true"
          /\ trace = << AntEvent("call", walking, tick, <<walking>>, 1) >>
          /\ deque = <<walking>>
          /\ host.health = pre.host.health

\* the tick in which defending's handler has popped its own level
C25_Witness ==
    /\ op.fn = "command"
    /\ Returned
    /\ pre.deque = <<walking, defending>>
    /\ deque = <<walking>>
    /\ host.health = 0 - 1
    /\ Len(trace) = 4

\* a tick handled by walking after defending has been through
C25_WitnessAfter ==
    /\ op.fn = "command"
    /\ Returned
    /\ pre.deque = <<walking>>
    /\ host.health = 0 - 1
    /\ trace # <<>> /\ trace[1].ev = "call" /\ trace[1].from = walking


\* ================================================================= C26 ====
\* ------------------------------------------- fsm::core and cd_player ----
\* fsm::core keeps the states and the triggers it went through, newest at
\* the front, and a log of lines; a state or trigger is a named string and
\* fsm::state() is the empty one.  cd_player derives from it and supplies
\* first() and next().
CdStates   == {"opened", "closed", "waiting", "playing"}
CdTriggers == {"open", "close", "play", "stop", "insert", "extract"}

\* bool good_disk_format() { return true; }
good_disk_format == TRUE

\* is( state ): state == states.front();  did( trigger ): trigger == triggers.front()
is(ss, st)  == ss[1] = st
did(ts, tr) == ts[1] = tr

first == "closed"

\* a next() that closes the tray without looking for a disc
nextForgetsDisc(ss, ts, h) ==
    IF is(ss, "opened") /\ did(ts, "close")
    THEN [state |-> "closed", host |-> h]
    ELSE IF is(ss, "opened") /\ did(ts, "insert")
    THEN [state |-> "opened", host |-> [h EXCEPT !.got_cd = TRUE]]
    ELSE IF is(ss, "opened") /\ did(ts, "extract")
    THEN [state |-> "opened", host |-> [h EXCEPT !.got_cd = FALSE]]
    ELSE IF is(ss, "closed") /\ did(ts, "open")
    THEN [state |-> "opened", host |-> h]
    ELSE IF is(ss, "waiting") /\ did(ts, "play")
    THEN [state |-> "playing", host |-> h]
    ELSE IF is(ss, "waiting") /\ did(ts, "open")
    THEN [state |-> "opened", host |-> h]
    ELSE IF is(ss, "playing") /\ did(ts, "open")
    THEN [state |-> "opened", host |-> h]
    ELSE IF is(ss, "playing") /\ did(ts, "stop")
    THEN [state |-> "closed", host |-> h]
    ELSE [state |-> "", host |-> h]

\* cd_player::next(): the state to go to, by the current state (ss), the
\* trigger being dispatched (front of ts) and the member got_cd, which it
\* also writes; the empty state if the trigger is not handled.
next(ss, ts, h) ==
    IF is(ss, "opened") /\ did(ts, "close")
    THEN [state |-> IF h.got_cd THEN "waiting" ELSE "closed", host |-> h]
    ELSE IF is(ss, "opened") /\ did(ts, "insert")
    THEN [state |-> "opened", host |-> [h EXCEPT !.got_cd = TRUE]]
    ELSE IF is(ss, "opened") /\ did(ts, "extract")
    THEN [state |-> "opened", host |-> [h EXCEPT !.got_cd = FALSE]]
    ELSE IF is(ss, "closed") /\ did(ts, "open")
    THEN [state |-> "opened", host |-> h]
    ELSE IF is(ss, "waiting") /\ did(ts, "play") /\ good_disk_format
    THEN [state |-> "playing", host |-> h]
    ELSE IF is(ss, "waiting") /\ did(ts, "open")
    THEN [state |-> "opened", host |-> h]
    ELSE IF is(ss, "playing") /\ did(ts, "open")
    THEN [state |-> "opened", host |-> h]
    ELSE IF is(ss, "playing") /\ did(ts, "stop")
    THEN [state |-> "closed", host |-> h]
    ELSE [state |-> "", host |-> h]

\* if( h.empty() || h.front() != x ) h.push_front( x );
\* if( h.size() > 60 ) h.pop_back();
PushNoDupes(h, x) ==
    LET h2 == IF h = <<>> \/ h[1] # x THEN <<x>> \o h ELSE h
    IN  IF Len(h2) > HistCap THEN SubSeq(h2, 1, Len(h2) - 1) ELSE h2

\* log.push_back( line ); if( log.size() > 60 ) log.pop_front();
\* the line names the state left, the trigger and the state entered
CoreLogPush(l, from, trigger, to) ==
    LET l2 == Append(l, <<from, trigger, to>>)
    IN  IF Len(l2) > HistCap THEN Tail(l2) ELSE l2

CoreSnapshot ==
    [states |-> states, triggers |-> triggers, log |-> log, host |-> host]

\* fsm::core::operator()( trigger ): the trigger is at the front of the
\* triggers while next() runs and taken off again; an empty answer is a
\* failed dispatch.  With `keep` the trace records the dispatch: its
\* trigger, its result, and the state and the disc flag after it.
Dispatch(trigger, keep) ==
    LET n       == next(states, <<trigger>> \o triggers, host)
        current == n.state
        tr(r, st) == IF keep
                     THEN Append(trace, [trigger |-> trigger, ret |-> r,
                                         state |-> st, got_cd |-> n.host.got_cd])
                     ELSE <<>>
    IN  /\ status = "alive"
        /\ states # <<>>
        /\ op' = EngineCall("dispatch", trigger)
        /\ pre' = CoreSnapshot
        /\ host' = n.host
        /\ IF current = ""
           THEN /\ ret' = "false"
                /\ trace' = tr("false", states[1])
                /\ UNCHANGED <<states, triggers, log>>
           ELSE /\ log' = CoreLogPush(log, states[1], trigger, current)
                /\ triggers' = PushNoDupes(triggers, trigger)
                /\ states' = PushNoDupes(states, current)
                /\ ret' = "true"
                /\ trace' = tr("true", PushNoDupes(states, current)[1])
        /\ UNCHANGED <<variant, callbacks, deque, current_trigger, frames,
                       status, ub>>

\* cd_player cd; cd << opened << ... << extract;  every << is add_state or
\* add_trigger, which call preconfig():
\*   states = { first(), fsm::state() }; triggers = { fsm::trigger() };
CdInit ==
    /\ variant = "core"
    /\ host = [got_cd |-> FALSE]
    /\ states = <<first, "">>
    /\ triggers = <<"">>
    /\ log = <<>>
    /\ callbacks = <<>>
    /\ deque = <<>>
    /\ current_trigger = NullState
    /\ frames = <<>>
    /\ status = "alive"
    /\ ub = FALSE
    /\ op = EngineCall("preconfig", "")
    /\ pre = [states |-> <<>>, triggers |-> <<>>, log |-> <<>>, host |-> host]
    /\ trace = <<>>
    /\ ret = "void"

\* main: play(cd), open(cd), ... by the key read; the trace keeps every
\* dispatch of the run with its result, the state and the disc flag after it
CdDispatch ==
    /\ Len(trace) < MaxRun
    /\ \E t \in CdTriggers : Dispatch(t, TRUE)

SpecCd == CdInit /\ [][CdDispatch]_vars

Run(tr) == [i \in 1..Len(tr) |-> tr[i].trigger]
IsPrefix(a, b) == Len(a) <= Len(b) /\ a = SubSeq(b, 1, Len(a))

\* C26 (as claimed): from state closed with no disc, the triggers open,
\* close, insert, close, play, stop give in turn the states opened, closed,
\* opened (with the disc flag true), waiting, playing, closed, and every
\* dispatch returns true.
C26_Scenario ==
    LET claimed == <<"open", "close", "insert", "close", "play", "stop">>
        result  == <<"opened", "closed", "opened", "waiting", "playing", "closed">>
    IN  IsPrefix(Run(trace), claimed)
        => \A i \in 1..Len(trace) :
              /\ trace[i].ret = "true"
              /\ trace[i].state = result[i]
              /\ i = 3 => trace[i].got_cd

\* C26 (amended): from state closed with no disc, the triggers open, close,
\* open, insert, close, play, stop give in turn the states opened, closed,
\* opened, opened (with the disc flag true), waiting, playing, closed, and
\* every dispatch returns true.  insert dispatched in state closed, as in
\* the claimed sequence, returns false and changes neither the state nor the
\* disc flag.
C26_ScenarioReopened ==
    LET amended == <<"open", "close", "open", "insert", "close", "play", "stop">>
        result  == <<"opened", "closed", "opened", "opened", "waiting",
                     "playing", "closed">>
    IN  /\ IsPrefix(Run(trace), amended)
           => \A i \in 1..Len(trace) :
                 /\ trace[i].ret = "true"
                 /\ trace[i].state = result[i]
                 /\ trace[i].got_cd <=> i >= 4
        /\ Run(trace) = <<"open", "close", "insert">>
           => /\ trace[3].ret = "false"
              /\ trace[3].state = "closed"
              /\ ~trace[3].got_cd

\* the amended sequence has been dispatched to its end
C26_Witness ==
    /\ Run(trace) = <<"open", "close", "open", "insert", "close", "play", "stop">>
    /\ states[1] = "closed"
    /\ host.got_cd


\* ================================================================= C28 ====
\* A host of fsm::core may register states and triggers at any time and may
\* call clear_trigger_flag(); the trace is not kept here.
\* add_state( name ) / add_trigger( name ): return preconfig(), *this;
CorePreconfig ==
    /\ status = "alive"
    /\ op' = EngineCall("preconfig", "")
    /\ pre' = CoreSnapshot
    /\ states' = <<first, "">>
    /\ triggers' = <<"">>
    /\ ret' = "void"
    /\ UNCHANGED <<host, log, variant, callbacks, deque, current_trigger,
                   frames, status, ub, trace>>

\* void clear_trigger_flag() { triggers.push_back( fsm::trigger("") ); }
CoreClearTriggerFlag ==
    /\ status = "alive"
    /\ Len(triggers) <= MaxRun
    /\ op' = EngineCall("clear_trigger_flag", "")
    /\ pre' = CoreSnapshot
    /\ triggers' = Append(triggers, "")
    /\ ret' = "void"
    /\ UNCHANGED <<host, states, log, variant, callbacks, deque,
                   current_trigger, frames, status, ub, trace>>

CoreDispatch ==
    /\ Len(log) < MaxRun
    /\ \E t \in CdTriggers : Dispatch(t, FALSE)

CoreNext ==
    \/ CorePreconfig
    \/ CoreClearTriggerFlag
    \/ CoreDispatch

SpecCore == CdInit /\ [][CoreNext]_vars

NoEqualNeighbours(h) == \A i \in 1..(Len(h) - 1) : h[i] # h[i + 1]

\* C28: a dispatch that next() answers with the empty state returns false
\* and leaves the states, the triggers and the log as they were; a
\* successful one puts the new state and the trigger at the front of their
\* histories only if they differ from the front; neither history ever holds
\* two equal entries next to each other, and neither history nor the log
\* ever holds more than 60 entries.
C28_CoreHistories ==
    /\ (op.fn = "dispatch" /\ ret = "false")
       => /\ states = pre.states
          /\ triggers = pre.triggers
          /\ log = pre.log
    /\ (op.fn = "dispatch" /\ ret = "true")
       => /\ states \in {pre.states, <<states[1]>> \o pre.states}
          /\ states = pre.states <=> states[1] = pre.states[1]
          /\ triggers \in {pre.triggers, <<op.arg>> \o pre.triggers}
          /\ triggers = pre.triggers <=> op.arg = pre.triggers[1]
    /\ NoEqualNeighbours(states)
    /\ NoEqualNeighbours(triggers)
    /\ Len(states) <= HistCap
    /\ Len(triggers) <= HistCap
    /\ Len(log) <= HistCap


\* ================================================================= C31 ====
\* Hosts whose handlers call back into the engine while the log fills up:
\* in the first table the handler of (A, T) pushes B and the one of (B, T)
\* pops it, in the second they replace the state by the other one; the
\* hooks those calls look up have handlers that only return.
NestedTables ==
    LET A == state("A", <<>>)
        B == state("B", <<>>)
        i == HookInit(variant)
        q == HookQuit(variant)
        p == HookPush(variant)
        b == HookBack(variant)
    IN  { (<<"A", "T">> :> << EngineCall("push", B) >>) @@
          (<<"B", "T">> :> << EngineCall("pop", NullState) >>) @@
          (<<"A", p>> :> <<>>) @@ (<<"B", i>> :> <<>>) @@
          (<<"B", q>> :> <<>>) @@ (<<"A", b>> :> <<>>),
          (<<"A", "T">> :> << EngineCall("set", B) >>) @@
          (<<"B", "T">> :> << EngineCall("set", A) >>) @@
          (<<"A", i>> :> <<>>) @@ (<<"A", q>> :> <<>>) @@
          (<<"B", i>> :> <<>>) @@ (<<"B", q>> :> <<>>) }

NestedInit ==
    /\ variant \in {"int", "str"}
    /\ host = NoHost
    /\ states = <<>>
    /\ triggers = <<>>
    /\ callbacks \in NestedTables
    /\ deque = <<state("A", <<>>)>>
    /\ log = <<>>
    /\ current_trigger = DefaultState(variant)
    /\ frames = <<>>
    /\ status = "alive"
    /\ ub = FALSE
    /\ op = EngineCall("stack", deque[1])
    /\ pre = [deque |-> <<>>, log |-> <<>>, current_trigger |-> DefaultState(variant)]
    /\ trace = <<>>
    /\ ret = "void"

NestedNext ==
    \/ LogCommand
    \/ CommandStart
    \/ CommandWalk
    \/ HandlerStep
    \/ CommandReturn
    \/ PushStart
    \/ PushResume
    \/ PopStart
    \/ PopResume
    \/ SetStart
    \/ ReplaceResume
    \/ Finish

SpecNested == NestedInit /\ [][NestedNext]_vars

\* a handler has been entered and has not made a statement yet
HandlerEntered ==
    /\ frames # <<>>
    /\ Top.fn = "handler"
    /\ Top.i = 1

\* C31: call() appends the record of a handler invocation, and evicts the
\* oldest record beyond the capacity, before the handler body runs: when a
\* handler is entered its record is the newest of the log, in every state
\* (while handlers execute too) the log holds at most 50 records and is the
\* most recent records in the order of the invocations, so the records of
\* the engine calls a handler makes come after the record of the handler's
\* own invocation.
C31_RecordBeforeHandler ==
    LET calls == Evs(trace, "call")
        M     == Len(calls)
        n     == Len(log)
    IN  /\ n <= LogCap
        /\ n = IF M > LogCap THEN LogCap ELSE M
        /\ \A i \in 1..n : log[i] = RecordOf(calls[M - n + i])
        /\ HandlerEntered
           => /\ trace[Len(trace)].ev = "call"
              /\ trace[Len(trace)].by = Len(frames) - 1
              /\ log[n] = RecordOf(trace[Len(trace)])
        /\ \A j \in 2..M :
              calls[j].by > 1 => \E k \in 1..(j - 1) : calls[k].by = calls[j].by - 2

\* a handler run by a call another handler made has been entered with the
\* log at its capacity: its record is the newest, the one of the handler
\* that made the call is right before it
C31_Witness ==
    /\ HandlerEntered
    /\ Len(frames) >= 4
    /\ Len(Evs(trace, "call")) > LogCap
    /\ Len(log) = LogCap
    /\ log[LogCap].current.name \in HookNames(variant)
    /\ log[LogCap - 1].current.name = "T"


\* ================================================================= C32 ====
\* A host that remembers the state it constructed the machine with, and that
\* also passes the `begin` ('init') hook to command() and to the public
\* call().
BeginInit ==
    /\ variant \in {"int", "str"}
    /\ states = <<>>
    /\ triggers = <<>>
    /\ callbacks = <<>>
    /\ \E n \in StateNames : deque = <<state(n, <<>>)>>
    /\ host = [start |-> deque[1]]
    /\ log = CtorLog(deque[1])
    /\ current_trigger = DefaultState(variant)
    /\ frames = <<>>
    /\ status = "setup"
    /\ ub = FALSE
    /\ op = EngineCall("stack", deque[1])
    /\ pre = [deque |-> <<>>, log |-> <<>>, current_trigger |-> DefaultState(variant)]
    /\ trace = CtorTrace(deque[1])
    /\ ret = "void"

\* fsm.command( 'init' ): the trigger is the lifecycle hook
HostCommandBegin ==
    /\ Len(deque) <= MaxDepth
    /\ HostCall("command", Hook(HookInit(variant)))

\* fsm.call( s, 'init' )
HostCallBegin ==
    \E n \in StateNames :
        HostCall("call", <<state(n, <<>>), Hook(HookInit(variant))>>)

BeginNext ==
    \/ HostOn
    \/ HostPush
    \/ HostPop
    \/ HostSet
    \/ HostCommandBegin
    \/ HostCallBegin
    \/ CallStart
    \/ PushStart
    \/ PushResume
    \/ PopStart
    \/ PopResume
    \/ SetStart
    \/ ReplaceResume
    \/ HandlerStep
    \/ CommandStart
    \/ CommandWalk
    \/ CommandCancel
    \/ CommandReturn
    \/ CommandEraseResume
    \/ Finish

SpecBegin == BeginInit /\ [][BeginNext]_vars

\* the `begin` ('init') handler of the state the machine was constructed
\* with has been entered
BeginOfStartEntered ==
    /\ HandlerEntered
    /\ trace[Len(trace)].ev = "call"
    /\ trace[Len(trace)].to.name = HookInit(variant)
    /\ trace[Len(trace)].from.name = host.start.name

\* the engine function that has entered the handler at the top
Caller == frames[Len(frames) - 1]

\* C32 (as claimed): right after construction no handler has been invoked and
\* the log is empty, and the `begin` ('init') handler of the initial state
\* runs only through a set or push of that state made afterwards.
C32_BeginOnlyBySetOrPush ==
    /\ op.fn = "stack"
       => /\ log = <<>>
          /\ Evs(trace, "call") = <<>>
          /\ ~HandlerEntered
    /\ BeginOfStartEntered
       => /\ op.fn # "stack"
          /\ Caller.fn \in {"push", "set"}
          /\ Caller.arg.name = host.start.name

\* C32 (amended): right after construction no handler has been invoked and
\* the log is empty; the `begin` ('init') handler of the initial state runs
\* only in an operation made after its registration: through a set or push
\* of that state, or because the host passes the hook itself to command()
\* or to call().
C32_BeginOnlyAfterRegistration ==
    /\ op.fn = "stack"
       => /\ log = <<>>
          /\ Evs(trace, "call") = <<>>
          /\ ~HandlerEntered
    /\ BeginOfStartEntered
       => /\ op.fn # "stack"
          /\ \/ /\ Caller.fn \in {"push", "set"}
                /\ Caller.arg.name = host.start.name
             \/ /\ Caller.fn = "command"
                /\ Caller.arg.name = HookInit(variant)
                /\ op.fn = "command" /\ op.arg.name = HookInit(variant)
             \/ /\ Caller.fn = "call"
                /\ Caller.arg[1].name = host.start.name
                /\ Caller.arg[2].name = HookInit(variant)

\* the begin handler of the initial state has been entered through a set of
\* that state
C32_Witness ==
    /\ BeginOfStartEntered
    /\ Caller.fn = "set"
    /\ op.fn = "set"
    /\ op.arg.name = host.start.name

\* ... and through a command whose trigger is the hook
C32_WitnessCommand ==
    /\ BeginOfStartEntered
    /\ Caller.fn = "command"


\* ================================================================= C33 ====
\* the lookups of lifecycle hooks and triggers, in the order they were made
AllLookups(tr) == SelectSeq(tr, LAMBDA e : e.ev \in {"call", "miss"})

\* C33: the teardown of a stack [s0..sn-1], n >= 2, looks up, besides the
\* `end` ('quit') hook of every level, the `resume` ('back') hook of every
\* level that becomes exposed: the lookups are quit(sn-1), back(sn-2),
\* quit(sn-2), ..., back(s0), quit(s0) and no others, each handler running
\* where one is registered; a level is resumed with itself innermost, right
\* before it is ended.  Stated for teardowns in which no handler pushes or
\* replaces a state.
C33_TeardownResumes ==
    ( /\ op.fn = "~stack"
      /\ status = "dead"
      /\ Len(pre.deque) >= 2
      /\ Evs(trace, "push_back") = <<>>
      /\ Evs(trace, "assign") = <<>> )
    => LET n     == Len(pre.deque)
           hooks == AllLookups(trace)
       IN  /\ Len(hooks) = 2 * n - 1
           /\ \A i \in 1..n :
                 /\ IsLookup(hooks[2 * i - 1], pre.deque[n + 1 - i], HookQuit(variant))
                 /\ hooks[2 * i - 1].stack = SubSeq(pre.deque, 1, n + 1 - i)
           /\ \A i \in 1..(n - 1) :
                 /\ IsLookup(hooks[2 * i], pre.deque[n - i], HookBack(variant))
                 /\ hooks[2 * i].stack = SubSeq(pre.deque, 1, n - i)

\* the teardown of a three-level stack that ran a resume handler and, right
\* after it, the end handler of the same level
C33_Witness ==
    /\ op.fn = "~stack"
    /\ status = "dead"
    /\ Len(pre.deque) = 3
    /\ Evs(trace, "push_back") = <<>>
    /\ Evs(trace, "assign") = <<>>
    /\ \E i \in 1..(Len(AllLookups(trace)) - 1) :
          /\ AllLookups(trace)[i].ev = "call"
          /\ AllLookups(trace)[i].to.name = HookBack(variant)
          /\ AllLookups(trace)[i + 1].ev = "call"
          /\ AllLookups(trace)[i + 1].to.name = HookQuit(variant)
          /\ AllLookups(trace)[i + 1].from = AllLookups(trace)[i].from


\* ================================================================= C34 ====
\* A host that uses both revisions: it constructs the integer-keyed machine,
\* registers handlers and makes some calls on it, noting after each call
\* what it returned, the stack and the handlers that ran; then it constructs
\* the string-keyed machine with the same start state, registers the same
\* handlers under the hook names of that revision and makes the same calls.
\*   script   the calls made on the first machine
\*   todo     the calls still to make on the second
\*   pending  a call has been made and its outcome is not noted yet
\*   obs1, obs2   the outcomes noted on the first and the second machine
CanonHook(n) ==
    CASE n = "begin"  -> "init"
      [] n = "end"    -> "quit"
      [] n = "pause"  -> "push"
      [] n = "resume" -> "back"
      [] OTHER        -> n

StrHook(n) ==
    CASE n = "init" -> "begin"
      [] n = "quit" -> "end"
      [] n = "push" -> "pause"
      [] n = "back" -> "resume"
      [] OTHER      -> n

\* the table of the integer-keyed machine, registered on the string-keyed
\* one: on(s, begin) for on(s, 'init'), and so on
StrTable(cb) ==
    [k \in {<<j[1], StrHook(j[2])>> : j \in DOMAIN cb} |->
        cb[<<k[1], CanonHook(k[2])>>]]

Outcome ==
    [ret   |-> ret,
     stack |-> deque,
     ran   |-> [i \in DOMAIN Calls(trace) |->
                  <<Calls(trace)[i].from, CanonHook(Calls(trace)[i].to.name),
                    Calls(trace)[i].to.args>>]]

EquivInit ==
    /\ variant = "int"
    /\ states = <<>>
    /\ triggers = <<>>
    /\ callbacks = <<>>
    /\ \E n \in StateNames : deque = <<state(n, <<>>)>>
    /\ host = [start |-> deque[1], phase |-> 1, script |-> <<>>, todo |-> <<>>,
               pending |-> FALSE, obs1 |-> <<>>, obs2 |-> <<>>]
    /\ log = CtorLog(deque[1])
    /\ current_trigger = DefaultState(variant)
    /\ frames = <<>>
    /\ status = "setup"
    /\ ub = FALSE
    /\ op = EngineCall("stack", deque[1])
    /\ pre = [deque |-> <<>>, log |-> <<>>, current_trigger |-> DefaultState(variant)]
    /\ trace = CtorTrace(deque[1])
    /\ ret = "void"

\* push, pop, set/next and command/exec, as the host may call them
EquivCalls ==
    {EngineCall("push", state(n, <<>>)) : n \in StateNames}
    \cup {EngineCall("pop", NullState)}
    \cup {EngineCall("set", state(n, <<>>)) : n \in StateNames}
    \cup {EngineCall("command", state(n, a)) : n \in TriggerNames, a \in ArgLists}

\* the host makes call c and goes on as h
EquivDo(c, h) ==
    /\ frames' = <<Frame(c.fn, c.arg)>>
    /\ status' = "alive"
    /\ op' = c
    /\ pre' = Snapshot
    /\ trace' = <<>>
    /\ ret' = "pending"
    /\ host' = h
    /\ UNCHANGED <<states, triggers, variant, callbacks, deque, log,
                   current_trigger, ub>>

\* a call on the integer-keyed machine
EquivCall ==
    /\ Idle
    /\ host.phase = 1
    /\ ~host.pending
    /\ Len(host.script) < MaxScript
    /\ \E c \in EquivCalls :
          EquivDo(c, [host EXCEPT !.script = Append(@, c), !.pending = TRUE])

\* the host notes the outcome of the call that has returned
EquivObserve ==
    /\ Idle
    /\ host.pending
    /\ host' = IF host.phase = 1
               THEN [host EXCEPT !.pending = FALSE, !.obs1 = Append(@, Outcome)]
               ELSE [host EXCEPT !.pending = FALSE, !.obs2 = Append(@, Outcome)]
    /\ UNCHANGED <<states, triggers, variant, callbacks, deque, log,
                   current_trigger, frames, status, ub, op, pre, trace, ret>>

\* fsm::stack of the string-keyed revision, constructed with the same start
\* state; the same handlers are registered on it
EquivRebuild ==
    /\ Idle
    /\ host.phase = 1
    /\ ~host.pending
    /\ host.script # <<>>
    /\ variant' = "str"
    /\ callbacks' = StrTable(callbacks)
    /\ deque' = <<host.start>>
    /\ log' = <<>>
    /\ current_trigger' = DefaultState("str")
    /\ op' = EngineCall("stack", host.start)
    /\ pre' = [deque |-> <<>>, log |-> <<>>, current_trigger |-> DefaultState("str")]
    /\ trace' = << [ev |-> "miss", from |-> host.start, to |-> Hook("begin"),
                    stack |-> <<host.start>>, by |-> 1] >>
    /\ ret' = "void"
    /\ host' = [host EXCEPT !.phase = 2, !.todo = host.script]
    /\ UNCHANGED <<states, triggers, frames, status, ub>>

\* the next call of the script on the string-keyed machine
EquivReplay ==
    /\ Idle
    /\ host.phase = 2
    /\ ~host.pending
    /\ host.todo # <<>>
    /\ EquivDo(Head(host.todo), [host EXCEPT !.todo = Tail(@), !.pending = TRUE])

EquivNext ==
    \/ HostOn
    \/ EquivCall
    \/ EquivObserve
    \/ EquivRebuild
    \/ EquivReplay
    \/ PushStart
    \/ PushResume
    \/ PopStart
    \/ PopResume
    \/ SetStart
    \/ ReplaceResume
    \/ HandlerStep
    \/ CommandStart
    \/ CommandWalk
    \/ CommandCancel
    \/ CommandReturn
    \/ CommandEraseResume
    \/ Finish

SpecEquiv == EquivInit /\ [][EquivNext]_vars

\* C34: the two revisions are observationally equivalent: with the same
\* handler table (under the mapping of the hook names) and the same calls of
\* push, pop, set/next and command/exec, every call returns the same on
\* both, leaves the same stack and runs the same handlers in the same order.
\* Runs that went through undefined behaviour are set aside.
C34_RevisionsEquivalent ==
    ( /\ host.phase = 2
      /\ ~host.pending
      /\ ~ub )
    => /\ Len(host.obs2) <= Len(host.obs1)
       /\ host.obs2 = SubSeq(host.obs1, 1, Len(host.obs2))

====
